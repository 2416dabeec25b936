--------------------------- MODULE NodeEventsProofs ---------------------------
(***************************************************************************)
(* Theorems about the node event mailbox, for every set of nodes,          *)
(* connections and threads and every capacity.                             *)
(***************************************************************************)
EXTENDS NodeEvents, SequenceTheorems, FiniteSetTheorems, WellFoundedInduction, TLAPS

-----------------------------------------------------------------------------
(* Sequences *)

\* A set of numbers that is not empty has a first one, which is what Min chooses.
LEMMA MinIsIn == ASSUME NEW S \in SUBSET Nat, S # {} PROVE Min(S) \in S
<1>1. PICK x \in S : \A y \in S : ~(<<y, x>> \in OpToRel(<, Nat))
  BY WFMin, NatLessThanWellFounded, Zenon
<1>2. OpToRel(<, Nat) = {ss \in Nat \X Nat : ss[1] < ss[2]}
  BY Zenon DEF OpToRel
<1>3. \A y \in S : ~(<<y, x>> \in {ss \in Nat \X Nat : ss[1] < ss[2]})
  BY <1>1, <1>2, Zenon
<1>4. ASSUME NEW y \in S PROVE x <= y
  <2>1. x \in Nat /\ y \in Nat
    OBVIOUS
  <2>2. ASSUME y < x PROVE FALSE
    <3> HIDE <1>1
    <3>1. <<y, x>> \in Nat \X Nat /\ <<y, x>>[1] = y /\ <<y, x>>[2] = x
      BY <2>1
    <3>2. <<y, x>> \in {ss \in Nat \X Nat : ss[1] < ss[2]}
      BY <3>1, <2>2
    <3> QED BY <3>2, <1>3
  <2> QED BY <2>1, <2>2
<1> QED BY <1>4 DEF Min

\* The position an element had before the one at p was taken out.
Skip(p, i) == IF i < p THEN i ELSE i + 1

\* r is q without the element at p.
Loses(q, r, p) ==
    /\ p \in 1..Len(q)
    /\ Len(r) = Len(q) - 1
    /\ \A i \in 1..Len(r) : r[i] = q[Skip(p, i)]

\* RemoveAt takes one element out.
LEMMA RemoveAtLoses ==
  ASSUME NEW S, NEW q \in Seq(S), NEW p \in 1..Len(q)
  PROVE  RemoveAt(q, p) \in Seq(S) /\ Loses(q, RemoveAt(q, p), p)
<1>1. Len(q) \in Nat /\ p \in Int /\ p - 1 \in Int /\ p + 1 \in Int
  OBVIOUS
<1>2. (\A i \in 1..(p - 1) : q[i] \in S) /\ (\A i \in (p + 1)..Len(q) : q[i] \in S)
  OBVIOUS
<1>3. PICK a : a = SubSeq(q, 1, p - 1)
  OBVIOUS
<1>4. PICK b : b = SubSeq(q, p + 1, Len(q))
  OBVIOUS
<1>5. a \in Seq(S) /\ Len(a) = p - 1 /\ (\A i \in 1..(p - 1) : a[i] = q[i])
  BY <1>1, <1>2, <1>3, SubSeqProperties
<1>6. b \in Seq(S) /\ Len(b) = Len(q) - p /\ (\A i \in 1..(Len(q) - p) : b[i] = q[p + i])
  BY <1>1, <1>2, <1>4, SubSeqProperties
<1>7. RemoveAt(q, p) = a \o b
  BY <1>3, <1>4 DEF RemoveAt
<1>8. a \o b \in Seq(S) /\ Len(a \o b) = Len(a) + Len(b)
  BY <1>5, <1>6, ConcatProperties
<1>9. Len(a \o b) = Len(q) - 1
  BY <1>1, <1>5, <1>6, <1>8
<1>10. ASSUME NEW i \in 1..(Len(q) - 1) PROVE (a \o b)[i] = q[Skip(p, i)]
  <2>1. (a \o b)[i] = IF i <= Len(a) THEN a[i] ELSE b[i - Len(a)]
    BY <1>5, <1>6, ConcatProperties
  <2>2. CASE i < p
    BY <2>1, <2>2, <1>5 DEF Skip
  <2>3. CASE ~(i < p)
    BY <2>1, <2>3, <1>5, <1>6 DEF Skip
  <2> QED BY <2>2, <2>3
<1> QED BY <1>7, <1>8, <1>9, <1>10 DEF Loses

\* So does Tail.
LEMMA TailLoses ==
  ASSUME NEW S, NEW q \in Seq(S), q # <<>>
  PROVE  Tail(q) \in Seq(S) /\ Loses(q, Tail(q), 1) /\ Head(q) = q[1]
BY HeadTailProperties DEF Loses, Skip

\* Every element but the one at p is still there, and their order is kept.
LEMMA LosesFacts ==
  ASSUME NEW S, NEW q \in Seq(S), NEW r \in Seq(S), NEW p, Loses(q, r, p)
  PROVE  /\ \A i \in 1..Len(r) : Skip(p, i) \in 1..Len(q) /\ Skip(p, i) # p
         /\ \A i, j \in 1..Len(r) : i < j <=> Skip(p, i) < Skip(p, j)
         /\ \A j \in 1..Len(q) : j # p => \E i \in 1..Len(r) : j = Skip(p, i) /\ r[i] = q[j]
<1>1. p \in Nat /\ Len(q) \in Nat /\ Len(r) = Len(q) - 1 /\ p <= Len(q) /\ p >= 1
  BY DEF Loses
<1>2. ASSUME NEW j \in 1..Len(q), j # p
      PROVE  \E i \in 1..Len(r) : j = Skip(p, i) /\ r[i] = q[j]
  <2>1. CASE j < p
    <3>1. j \in 1..Len(r) /\ j = Skip(p, j)
      BY <2>1, <1>1 DEF Skip
    <3> QED BY <3>1 DEF Loses
  <2>2. CASE j > p
    <3>1. j - 1 \in 1..Len(r) /\ j = Skip(p, j - 1)
      BY <2>2, <1>1 DEF Skip
    <3> QED BY <3>1 DEF Loses
  <2> QED BY <1>1, <1>2, <2>1, <2>2
<1> QED BY <1>1, <1>2 DEF Skip

\* What is left was there before.
LEMMA LosesPositions ==
  ASSUME NEW S, NEW q \in Seq(S), NEW r \in Seq(S), NEW p, Loses(q, r, p)
  PROVE  \A i \in DOMAIN r : r[i] = q[Skip(p, i)] /\ Skip(p, i) \in DOMAIN q /\ Skip(p, i) # p
<1>1. DOMAIN q = 1..Len(q) /\ DOMAIN r = 1..Len(r)
  BY LenProperties
<1>2. \A i \in 1..Len(r) : r[i] = q[Skip(p, i)]
  BY DEF Loses
<1>3. \A i \in 1..Len(r) : Skip(p, i) \in 1..Len(q) /\ Skip(p, i) # p
  BY LosesFacts
<1> QED BY <1>1, <1>2, <1>3

\* Append adds one element at the end.
LEMMA AppendFacts ==
  ASSUME NEW S, NEW q \in Seq(S), NEW e \in S
  PROVE  /\ Append(q, e) \in Seq(S)
         /\ Len(Append(q, e)) = Len(q) + 1
         /\ DOMAIN Append(q, e) = 1..(Len(q) + 1)
         /\ \A i \in 1..Len(q) : Append(q, e)[i] = q[i]
         /\ Append(q, e)[Len(q) + 1] = e
BY AppendProperties

-----------------------------------------------------------------------------
(* What is said of a queue *)

\* At most one level event of a key.
OnePerKey(q) ==
    \A i, j \in DOMAIN q : Level(q[i]) /\ Level(q[j]) /\ Key(q[i]) = Key(q[j]) => i = j

\* At most one level event once the capacity is exceeded.
Bounded(q) ==
    \/ Len(q) <= Capacity
    \/ \A i, j \in DOMAIN q : Level(q[i]) /\ Level(q[j]) => i = j

\* The reliable events of q, in order, are u.
Keeps(q, u) ==
    /\ Len(u) = ReliableUpTo(q, Len(q))
    /\ \A i \in DOMAIN q : Reliable(q[i]) => q[i] = u[ReliableUpTo(q, i)]

\* The event x is in q, behind all others of the key k.
LastOf(q, k, x) ==
    \E i \in DOMAIN q : q[i] = x /\ \A j \in DOMAIN q : j > i => Key(q[j]) # k

\* No event of q has the key k.
Silent(q, k) == \A i \in DOMAIN q : Key(q[i]) # k

\* No event is in q twice.
Distinct(q) == \A i, j \in DOMAIN q : q[i] = q[j] => i = j

\* The positions counted by ReliableUpTo.
ReliableAt(q, i) == {j \in DOMAIN q : j <= i /\ Reliable(q[j])}

\* There are finitely many of them.
LEMMA ReliableAtFinite ==
  ASSUME NEW S, NEW q \in Seq(S), NEW i
  PROVE  IsFiniteSet(ReliableAt(q, i)) /\ ReliableUpTo(q, i) \in Nat
<1>1. Len(q) \in Int /\ DOMAIN q = 1..Len(q)
  BY LenProperties
<1>2. IsFiniteSet(1..Len(q))
  BY <1>1, FS_Interval
<1>3. IsFiniteSet(ReliableAt(q, i))
  BY <1>1, <1>2, FS_Subset DEF ReliableAt
<1> QED BY <1>3, FS_CardinalityType DEF ReliableUpTo, ReliableAt

\* A queue that loses an event has the reliable events it had, but for that one.
LEMMA ReliableAfterLoss ==
  ASSUME NEW S, NEW q \in Seq(S), NEW r \in Seq(S), NEW p, Loses(q, r, p), NEW n, NEW m,
         \A j \in 1..Len(r) : j <= n <=> Skip(p, j) <= m
  PROVE  ReliableUpTo(r, n) =
           IF p \in ReliableAt(q, m) THEN ReliableUpTo(q, m) - 1 ELSE ReliableUpTo(q, m)
<1>1. PICK f : f = [j \in ReliableAt(r, n) |-> Skip(p, j)]
  OBVIOUS
<1>2. DOMAIN q = 1..Len(q) /\ DOMAIN r = 1..Len(r)
  BY LenProperties
<1>3. \A j \in 1..Len(r) : r[j] = q[Skip(p, j)]
  BY DEF Loses
<1>4. f \in [ReliableAt(r, n) -> ReliableAt(q, m) \ {p}]
  BY <1>1, <1>2, <1>3, LosesFacts DEF ReliableAt
<1>5. \A i, j \in ReliableAt(r, n) : f[i] = f[j] => i = j
  BY <1>1, <1>2, LosesFacts DEF ReliableAt
<1>6. ASSUME NEW j \in ReliableAt(q, m) \ {p} PROVE \E i \in ReliableAt(r, n) : f[i] = j
  <2>1. PICK i \in 1..Len(r) : j = Skip(p, i) /\ r[i] = q[j]
    BY <1>2, LosesFacts DEF ReliableAt
  <2>2. i \in ReliableAt(r, n)
    BY <1>2, <2>1 DEF ReliableAt
  <2> QED BY <1>1, <2>1, <2>2
<1>7. ExistsBijection(ReliableAt(r, n), ReliableAt(q, m) \ {p})
  BY <1>4, <1>5, <1>6 DEF ExistsBijection, Bijection, Injection, Surjection, IsInjective
<1>8. Cardinality(ReliableAt(q, m) \ {p}) = Cardinality(ReliableAt(r, n))
  BY <1>7, FS_Bijection, ReliableAtFinite
<1>9. Cardinality(ReliableAt(q, m) \ {p}) =
        IF p \in ReliableAt(q, m) THEN Cardinality(ReliableAt(q, m)) - 1
        ELSE Cardinality(ReliableAt(q, m))
  BY ReliableAtFinite, FS_RemoveElement
<1> QED BY <1>8, <1>9 DEF ReliableUpTo, ReliableAt

\* Losing an event makes no two level events of a key.
LEMMA LossOnePerKey ==
  ASSUME NEW S, NEW q \in Seq(S), NEW r \in Seq(S), NEW p, Loses(q, r, p), OnePerKey(q)
  PROVE  OnePerKey(r)
<1>1. DOMAIN q = 1..Len(q) /\ DOMAIN r = 1..Len(r)
  BY LenProperties
<1>2. \A j \in 1..Len(r) : r[j] = q[Skip(p, j)]
  BY DEF Loses
<1>3. \A i, j \in 1..Len(r) : Skip(p, i) = Skip(p, j) => i = j
  BY LosesFacts DEF Skip
<1> QED BY <1>1, <1>2, <1>3, LosesFacts DEF OnePerKey

\* Losing an event leaves the queue within its bound.
LEMMA LossBounded ==
  ASSUME NEW S, NEW q \in Seq(S), NEW r \in Seq(S), NEW p, Loses(q, r, p), Bounded(q)
  PROVE  Bounded(r)
<1>1. DOMAIN q = 1..Len(q) /\ DOMAIN r = 1..Len(r)
  BY LenProperties
<1>2. \A j \in 1..Len(r) : r[j] = q[Skip(p, j)]
  BY DEF Loses
<1>3. \A i, j \in 1..Len(r) : Skip(p, i) = Skip(p, j) => i = j
  BY LosesFacts DEF Skip
<1>4. CASE Len(q) <= Capacity
  BY <1>4, NodeEventsAssumption DEF Bounded, Loses, NodeEventsAssumption
<1>5. CASE \A i, j \in DOMAIN q : Level(q[i]) /\ Level(q[j]) => i = j
  BY <1>1, <1>2, <1>3, <1>5, LosesFacts DEF Bounded
<1> QED BY <1>4, <1>5 DEF Bounded

\* Losing a level event leaves the reliable ones as they are.
LEMMA LossOfLevelKeeps ==
  ASSUME NEW S, NEW q \in Seq(S), NEW r \in Seq(S), NEW p, Loses(q, r, p), Level(q[p]),
         NEW u, Keeps(q, u)
  PROVE  Keeps(r, u)
<1>1. DOMAIN q = 1..Len(q) /\ DOMAIN r = 1..Len(r) /\ Len(r) \in Nat /\ Len(q) \in Nat
  BY LenProperties
<1>2. \A m : p \notin ReliableAt(q, m)
  BY DEF ReliableAt, Level
<1>3. \A j \in 1..Len(r) : r[j] = q[Skip(p, j)] /\ Skip(p, j) \in 1..Len(q)
  BY LosesFacts DEF Loses
<1>4. ReliableUpTo(r, Len(r)) = ReliableUpTo(q, Len(q))
  <2>1. \A j \in 1..Len(r) : j <= Len(r) <=> Skip(p, j) <= Len(q)
    BY <1>1, <1>3
  <2> QED BY <2>1, <1>2, ReliableAfterLoss
<1>5. ASSUME NEW i \in 1..Len(r) PROVE ReliableUpTo(r, i) = ReliableUpTo(q, Skip(p, i))
  <2>1. PICK m : m = Skip(p, i)
    OBVIOUS
  <2>2. \A j \in 1..Len(r) : j <= i <=> Skip(p, j) <= m
    BY <1>1, <2>1 DEF Skip, Loses
  <2>3. ReliableUpTo(r, i) = ReliableUpTo(q, m)
    BY <2>2, <1>2, ReliableAfterLoss
  <2> QED BY <2>1, <2>3
<1> QED BY <1>1, <1>3, <1>4, <1>5 DEF Keeps

\* Losing the first event, a reliable one, is receiving the first unread one.
LEMMA LossOfHeadKeeps ==
  ASSUME NEW S, NEW q \in Seq(S), NEW r \in Seq(S), Loses(q, r, 1), Reliable(q[1]),
         NEW T, NEW u \in Seq(T), Keeps(q, u)
  PROVE  u # <<>> /\ Keeps(r, Tail(u))
<1>1. /\ DOMAIN q = 1..Len(q) /\ DOMAIN r = 1..Len(r) /\ Len(r) \in Nat /\ Len(q) \in Nat
      /\ Len(q) >= 1 /\ Len(u) \in Nat
  BY LenProperties DEF Loses
<1>2. \A m \in 1..Len(q) : 1 \in ReliableAt(q, m)
  BY <1>1 DEF ReliableAt
<1>3. \A j \in 1..Len(r) : r[j] = q[j + 1] /\ j + 1 \in 1..Len(q) /\ Skip(1, j) = j + 1
  BY <1>1 DEF Loses, Skip
<1>4. ReliableUpTo(r, Len(r)) = ReliableUpTo(q, Len(q)) - 1
  <2>1. \A j \in 1..Len(r) : j <= Len(r) <=> Skip(1, j) <= Len(q)
    BY <1>1, <1>3
  <2> QED BY <2>1, <1>1, <1>2, ReliableAfterLoss
<1>5. ReliableUpTo(r, Len(r)) \in Nat
  BY ReliableAtFinite
<1>6. u # <<>> /\ Len(Tail(u)) = ReliableUpTo(r, Len(r))
  BY <1>1, <1>4, <1>5, HeadTailProperties DEF Keeps
<1>7. ASSUME NEW i \in 1..Len(r), Reliable(r[i]) PROVE r[i] = Tail(u)[ReliableUpTo(r, i)]
  <2>1. \A j \in 1..Len(r) : j <= i <=> Skip(1, j) <= i + 1
    BY <1>1, <1>3
  <2>2. ReliableUpTo(r, i) = ReliableUpTo(q, i + 1) - 1
    BY <2>1, <1>2, <1>3, ReliableAfterLoss
  <2>3. /\ ReliableUpTo(r, i) \in Nat /\ ReliableUpTo(q, i + 1) \in Nat
        /\ ReliableUpTo(r, i) <= ReliableUpTo(r, Len(r)) /\ ReliableUpTo(r, i) >= 1
    <3>1. ReliableAt(r, i) \in SUBSET ReliableAt(r, Len(r))
      BY <1>1 DEF ReliableAt
    <3>2. i \in ReliableAt(r, i)
      BY <1>1, <1>7 DEF ReliableAt
    <3>3. Cardinality(ReliableAt(r, i)) # 0
      BY <3>2, FS_EmptySet, ReliableAtFinite
    <3>4. Cardinality(ReliableAt(r, i)) <= Cardinality(ReliableAt(r, Len(r)))
      BY <3>1, FS_Subset, ReliableAtFinite
    <3>5. ReliableUpTo(r, i) \in Nat /\ ReliableUpTo(q, i + 1) \in Nat
      BY ReliableAtFinite
    <3> QED BY <3>3, <3>4, <3>5, <1>5 DEF ReliableUpTo, ReliableAt
  <2>4. r[i] = u[ReliableUpTo(q, i + 1)]
    BY <1>1, <1>3, <1>7 DEF Keeps
  <2>5. Tail(u)[ReliableUpTo(r, i)] = u[ReliableUpTo(r, i) + 1]
    BY <2>3, <1>6, HeadTailProperties
  <2>6. ReliableUpTo(r, i) + 1 = ReliableUpTo(q, i + 1)
    BY <2>2, <2>3
  <2> QED BY <2>4, <2>5, <2>6, Zenon
<1> QED BY <1>1, <1>6, <1>7 DEF Keeps

\* An event other than the lost one stays the last of its key.
LEMMA LossLastOf ==
  ASSUME NEW S, NEW q \in Seq(S), NEW r \in Seq(S), NEW p, Loses(q, r, p),
         NEW k, NEW x, LastOf(q, k, x), q[p] # x
  PROVE  LastOf(r, k, x)
<1>1. DOMAIN q = 1..Len(q) /\ DOMAIN r = 1..Len(r)
  BY LenProperties
<1>2. PICK j \in 1..Len(q) : q[j] = x /\ \A l \in 1..Len(q) : l > j => Key(q[l]) # k
  BY <1>1 DEF LastOf
<1>3. PICK i \in 1..Len(r) : j = Skip(p, i) /\ r[i] = q[j]
  BY <1>2, LosesFacts
<1>4. \A l \in 1..Len(r) : r[l] = q[Skip(p, l)] /\ Skip(p, l) \in 1..Len(q)
  BY LosesFacts DEF Loses
<1>5. \A l \in 1..Len(r) : l > i => Skip(p, l) > Skip(p, i)
  BY <1>4, LosesFacts
<1>6. \A l \in 1..Len(r) : l > i => Key(r[l]) # k
  BY <1>2, <1>3, <1>4, <1>5
<1> QED BY <1>1, <1>2, <1>3, <1>6 DEF LastOf

\* Losing an event brings no event of a key, and none twice.
LEMMA LossSilentDistinct ==
  ASSUME NEW S, NEW q \in Seq(S), NEW r \in Seq(S), NEW p, Loses(q, r, p)
  PROVE  /\ \A k : Silent(q, k) => Silent(r, k)
         /\ Distinct(q) => Distinct(r)
<1>1. DOMAIN r = 1..Len(r)
  BY LenProperties
<1>2. \A i \in DOMAIN r : r[i] = q[Skip(p, i)] /\ Skip(p, i) \in DOMAIN q
  BY LosesPositions
<1>3. \A i, j \in 1..Len(r) : Skip(p, i) = Skip(p, j) => i = j
  BY LosesFacts DEF Skip
<1> QED BY <1>1, <1>2, <1>3 DEF Silent, Distinct

\* The last event of a key at the head of a queue without repetitions is the only one.
LEMMA HeadIsOnly ==
  ASSUME NEW S, NEW q \in Seq(S), NEW r \in Seq(S), Loses(q, r, 1), Distinct(q),
         NEW k, LastOf(q, k, q[1])
  PROVE  Silent(r, k)
<1>1. DOMAIN q = 1..Len(q) /\ DOMAIN r = 1..Len(r) /\ Len(q) \in Nat /\ 1 \in DOMAIN q
  BY LenProperties DEF Loses
<1>2. \A j \in DOMAIN q : j > 1 => Key(q[j]) # k
  BY <1>1 DEF LastOf, Distinct
<1>3. \A i \in DOMAIN r : r[i] = q[Skip(1, i)] /\ Skip(1, i) \in DOMAIN q /\ Skip(1, i) # 1
  BY LosesPositions
<1> QED BY <1>1, <1>2, <1>3 DEF Silent

\* Appending an event whose key no level event has, or which is reliable itself.
LEMMA AppendOnePerKey ==
  ASSUME NEW S, NEW q \in Seq(S), NEW e \in S, OnePerKey(q),
         Level(e) => \A i \in DOMAIN q : Level(q[i]) => Key(q[i]) # Key(e)
  PROVE  OnePerKey(Append(q, e))
<1>1. DOMAIN q = 1..Len(q) /\ Len(q) \in Nat
  BY LenProperties
<1>2. \A i \in DOMAIN Append(q, e) : \/ i \in DOMAIN q /\ Append(q, e)[i] = q[i]
                                     \/ i = Len(q) + 1 /\ Append(q, e)[i] = e
  BY <1>1, AppendFacts
<1> QED BY <1>2 DEF OnePerKey

\* Appending to a queue with room, or without a level event.
LEMMA AppendBounded ==
  ASSUME NEW S, NEW q \in Seq(S), NEW e \in S,
         Len(q) < Capacity \/ \A i \in DOMAIN q : ~Level(q[i])
  PROVE  Bounded(Append(q, e))
<1>1. DOMAIN q = 1..Len(q) /\ Len(q) \in Nat /\ Capacity \in Nat
  BY LenProperties, NodeEventsAssumption DEF NodeEventsAssumption
<1>2. Len(Append(q, e)) = Len(q) + 1
  BY AppendFacts
<1>3. \A i \in DOMAIN Append(q, e) : \/ i \in DOMAIN q /\ Append(q, e)[i] = q[i]
                                     \/ i = Len(q) + 1 /\ Append(q, e)[i] = e
  BY <1>1, AppendFacts
<1>4. CASE Len(q) < Capacity
  BY <1>1, <1>2, <1>4 DEF Bounded
<1>5. CASE \A i \in DOMAIN q : ~Level(q[i])
  BY <1>3, <1>5 DEF Bounded
<1> QED BY <1>4, <1>5

\* Appending a reliable event to the queue is appending it to the unread ones.
LEMMA AppendKeeps ==
  ASSUME NEW S, NEW q \in Seq(S), NEW e \in S, NEW u \in Seq(S), Keeps(q, u)
  PROVE  Keeps(Append(q, e), IF Reliable(e) THEN Append(u, e) ELSE u)
<1>1. PICK r : r = Append(q, e)
  OBVIOUS
<1>2. /\ DOMAIN q = 1..Len(q) /\ Len(q) \in Nat
      /\ DOMAIN r = 1..(Len(q) + 1) /\ Len(r) = Len(q) + 1 /\ r[Len(q) + 1] = e
      /\ \A i \in 1..Len(q) : r[i] = q[i]
  BY <1>1, LenProperties, AppendFacts
<1>3. \A i \in 1..Len(q) : ReliableAt(r, i) = ReliableAt(q, i)
  BY <1>2 DEF ReliableAt
<1>4. \A i \in 1..Len(q) : ReliableUpTo(r, i) = ReliableUpTo(q, i)
  BY <1>3 DEF ReliableUpTo, ReliableAt
<1>5. /\ ReliableUpTo(q, Len(q)) \in Nat
      /\ ReliableUpTo(r, Len(r)) = IF Reliable(e) THEN ReliableUpTo(q, Len(q)) + 1
                                  ELSE ReliableUpTo(q, Len(q))
  <2>1. IsFiniteSet(ReliableAt(q, Len(q))) /\ ReliableUpTo(q, Len(q)) \in Nat
    BY ReliableAtFinite
  <2>2. CASE Reliable(e)
    <3>1. ReliableAt(r, Len(r)) = ReliableAt(q, Len(q)) \union {Len(q) + 1}
      BY <1>2, <2>2 DEF ReliableAt
    <3>2. Len(q) + 1 \notin ReliableAt(q, Len(q))
      BY <1>2 DEF ReliableAt
    <3>3. Cardinality(ReliableAt(r, Len(r))) = Cardinality(ReliableAt(q, Len(q))) + 1
      BY <2>1, <3>1, <3>2, FS_AddElement
    <3> QED BY <2>1, <2>2, <3>3 DEF ReliableUpTo, ReliableAt
  <2>3. CASE ~Reliable(e)
    <3>1. ReliableAt(r, Len(r)) = ReliableAt(q, Len(q))
      BY <1>2, <2>3 DEF ReliableAt
    <3> QED BY <2>1, <2>3, <3>1 DEF ReliableUpTo, ReliableAt
  <2> QED BY <2>2, <2>3
<1>6. \A i \in 1..Len(q) : Reliable(q[i]) => ReliableUpTo(q, i) \in 1..Len(u)
  <2> SUFFICES ASSUME NEW i \in 1..Len(q), Reliable(q[i]) PROVE ReliableUpTo(q, i) \in 1..Len(u)
    OBVIOUS
  <2>1. i \in ReliableAt(q, i) /\ ReliableAt(q, i) \in SUBSET ReliableAt(q, Len(q))
    BY <1>2 DEF ReliableAt
  <2>2. Cardinality(ReliableAt(q, i)) # 0
    BY <2>1, FS_EmptySet, ReliableAtFinite
  <2>3. Cardinality(ReliableAt(q, i)) <= Cardinality(ReliableAt(q, Len(q)))
    BY <2>1, FS_Subset, ReliableAtFinite
  <2>4. ReliableUpTo(q, i) \in Nat /\ ReliableUpTo(q, Len(q)) \in Nat
    BY ReliableAtFinite
  <2>5. ReliableUpTo(q, i) # 0 /\ ReliableUpTo(q, i) <= ReliableUpTo(q, Len(q))
    BY <2>2, <2>3 DEF ReliableUpTo, ReliableAt
  <2> QED BY <2>4, <2>5 DEF Keeps
<1>7. CASE Reliable(e)
  <2>1. /\ Len(Append(u, e)) = Len(u) + 1 /\ Append(u, e)[Len(u) + 1] = e
        /\ \A j \in 1..Len(u) : Append(u, e)[j] = u[j]
    BY AppendFacts
  <2>2. Len(Append(u, e)) = ReliableUpTo(r, Len(r))
    BY <1>5, <1>7, <2>1 DEF Keeps
  <2>3. \A i \in 1..Len(q) : Reliable(r[i]) => r[i] = Append(u, e)[ReliableUpTo(r, i)]
    BY <1>2, <1>4, <1>6, <2>1 DEF Keeps
  <2>4. r[Len(r)] = Append(u, e)[ReliableUpTo(r, Len(r))]
    BY <1>2, <2>1, <2>2
  <2>5. \A i \in DOMAIN r : i \in 1..Len(q) \/ i = Len(r)
    BY <1>2
  <2> QED BY <1>1, <1>7, <2>2, <2>3, <2>4, <2>5 DEF Keeps
<1>8. CASE ~Reliable(e)
  <2>1. Len(u) = ReliableUpTo(r, Len(r))
    BY <1>5, <1>8 DEF Keeps
  <2>2. \A i \in 1..Len(q) : Reliable(r[i]) => r[i] = u[ReliableUpTo(r, i)]
    BY <1>2, <1>4 DEF Keeps
  <2>3. \A i \in DOMAIN r : i \in 1..Len(q) \/ r[i] = e
    BY <1>2
  <2> QED BY <1>1, <1>8, <2>1, <2>2, <2>3 DEF Keeps
<1> QED BY <1>7, <1>8

\* The last of another key stays the last, and the appended event is the last of its own.
LEMMA AppendLastOf ==
  ASSUME NEW S, NEW q \in Seq(S), NEW e \in S
  PROVE  /\ \A k : LastOf(Append(q, e), k, e)
         /\ \A k, x : LastOf(q, k, x) /\ Key(e) # k => LastOf(Append(q, e), k, x)
<1>1. PICK r : r = Append(q, e)
  OBVIOUS
<1>2. /\ DOMAIN q = 1..Len(q) /\ Len(q) \in Nat
      /\ DOMAIN r = 1..(Len(q) + 1) /\ r[Len(q) + 1] = e
      /\ \A i \in 1..Len(q) : r[i] = q[i]
  BY <1>1, LenProperties, AppendFacts
<1>3. \A k : LastOf(r, k, e)
  BY <1>2 DEF LastOf
<1>4. ASSUME NEW k, NEW x, LastOf(q, k, x), Key(e) # k PROVE LastOf(r, k, x)
  <2>1. PICK i \in DOMAIN q : q[i] = x /\ \A j \in DOMAIN q : j > i => Key(q[j]) # k
    BY <1>4 DEF LastOf
  <2>2. i \in DOMAIN r /\ r[i] = x
    BY <1>2, <2>1
  <2>3. \A j \in DOMAIN r : j > i => Key(r[j]) # k
    BY <1>2, <1>4, <2>1
  <2> QED BY <2>2, <2>3 DEF LastOf
<1> QED BY <1>1, <1>3, <1>4

-----------------------------------------------------------------------------
(* The push *)

\* Coalescing takes out the level event of the same key, if there is one.
LEMMA CoalescedFacts ==
  ASSUME NEW S, NEW q \in Seq(S), NEW e
  PROVE  /\ Coalesced(q, e) \in Seq(S)
         /\ \/ /\ Coalesced(q, e) = q
               /\ Level(e) => \A i \in DOMAIN q : Level(q[i]) => Key(q[i]) # Key(e)
            \/ \E p \in 1..Len(q) : /\ Loses(q, Coalesced(q, e), p)
                                    /\ Level(e) /\ Level(q[p]) /\ Key(q[p]) = Key(e)
<1>1. CASE Reliable(e)
  BY <1>1 DEF Coalesced, Level
<1>2. CASE ~Reliable(e) /\ \A i \in DOMAIN q : ~(Level(q[i]) /\ Key(q[i]) = Key(e))
  BY <1>2 DEF Coalesced, Without
<1>3. CASE ~Reliable(e) /\ \E i \in DOMAIN q : Level(q[i]) /\ Key(q[i]) = Key(e)
  <2>1. PICK I : I = {i \in 1..Len(q) : Level(q[i]) /\ Key(q[i]) = Key(e)}
    OBVIOUS
  <2>2. I \in SUBSET Nat /\ I # {}
    BY <1>3, <2>1, LenProperties
  <2>3. PICK p : p = Min(I)
    OBVIOUS
  <2>4. p \in I
    BY <2>2, <2>3, MinIsIn
  <2>5. Coalesced(q, e) = RemoveAt(q, p)
    BY <1>3, <2>1, <2>2, <2>3 DEF Coalesced, Without, SelectInSeq
  <2>6. p \in 1..Len(q) /\ Level(q[p]) /\ Key(q[p]) = Key(e)
    BY <2>1, <2>4
  <2>7. RemoveAt(q, p) \in Seq(S) /\ Loses(q, RemoveAt(q, p), p)
    BY <2>6, RemoveAtLoses
  <2> QED BY <1>3, <2>5, <2>6, <2>7 DEF Level
<1> QED BY <1>1, <1>2, <1>3

\* Evicting takes the first level event out of a full queue, if there is one.
LEMMA EvictedFacts ==
  ASSUME NEW S, NEW q \in Seq(S)
  PROVE  /\ Evicted(q) \in Seq(S)
         /\ \/ /\ Evicted(q) = q /\ Victim(q) = None
               /\ Len(q) < Capacity \/ \A i \in DOMAIN q : ~Level(q[i])
            \/ /\ Len(q) >= Capacity
               /\ \E p \in 1..Len(q) : /\ Loses(q, Evicted(q), p)
                                       /\ Level(q[p]) /\ Victim(q) = q[p]
<1>0. Len(q) \in Nat /\ Capacity \in Nat
  BY LenProperties, NodeEventsAssumption DEF NodeEventsAssumption
<1>1. CASE ~(Len(q) >= Capacity)
  BY <1>0, <1>1 DEF Evicted, Victim
<1>2. CASE Len(q) >= Capacity /\ \A i \in DOMAIN q : ~Level(q[i])
  BY <1>2 DEF Evicted, Victim, Without
<1>3. CASE Len(q) >= Capacity /\ \E i \in DOMAIN q : Level(q[i])
  <2>1. PICK I : I = {i \in 1..Len(q) : Level(q[i])}
    OBVIOUS
  <2>2. I \in SUBSET Nat /\ I # {}
    BY <1>3, <2>1, LenProperties
  <2>3. PICK p : p = Min(I)
    OBVIOUS
  <2>4. p \in I
    BY <2>2, <2>3, MinIsIn
  <2>5. SelectInSeq(q, Level) = p
    BY <2>1, <2>2, <2>3 DEF SelectInSeq
  <2>6. Evicted(q) = RemoveAt(q, p) /\ Victim(q) = q[p]
    BY <1>3, <2>5 DEF Evicted, Victim, Without
  <2>7. p \in 1..Len(q) /\ Level(q[p])
    BY <2>1, <2>4
  <2>8. RemoveAt(q, p) \in Seq(S) /\ Loses(q, RemoveAt(q, p), p)
    BY <2>7, RemoveAtLoses
  <2> QED BY <1>3, <2>6, <2>7, <2>8
<1> QED BY <1>1, <1>2, <1>3

\* The queue after the event e was pushed.
Pushed(q, e) == Append(Evicted(Coalesced(q, e)), e)

\* Every event of the new queue was there before or is the new one.
LEMMA PushedEvents ==
  ASSUME NEW S, NEW q \in Seq(S), NEW e \in S
  PROVE  /\ Pushed(q, e) \in Seq(S) /\ Pushed(q, e) # <<>>
         /\ \A i \in DOMAIN Pushed(q, e) :
               Pushed(q, e)[i] = e \/ \E j \in DOMAIN q : Pushed(q, e)[i] = q[j]
<1>1. PICK c : c = Coalesced(q, e)
  OBVIOUS
<1>2. PICK r : r = Evicted(c)
  OBVIOUS
<1>3. c \in Seq(S) /\ r \in Seq(S)
  BY <1>1, <1>2, CoalescedFacts, EvictedFacts
<1>4. DOMAIN q = 1..Len(q) /\ DOMAIN c = 1..Len(c) /\ DOMAIN r = 1..Len(r) /\ Len(r) \in Nat
  BY <1>3, LenProperties
<1>5. \A i \in DOMAIN c : \E j \in DOMAIN q : c[i] = q[j]
  <2>1. CASE c = q
    BY <2>1
  <2>2. CASE \E p \in 1..Len(q) : Loses(q, c, p)
    BY <2>2, <1>3, <1>4, LosesFacts DEF Loses
  <2> QED BY <1>1, <2>1, <2>2, CoalescedFacts
<1>6. \A i \in DOMAIN r : \E j \in DOMAIN c : r[i] = c[j]
  <2>1. CASE r = c
    BY <2>1
  <2>2. CASE \E p \in 1..Len(c) : Loses(c, r, p)
    BY <2>2, <1>3, <1>4, LosesFacts DEF Loses
  <2> QED BY <1>2, <1>3, <2>1, <2>2, EvictedFacts
<1>7. \A i \in DOMAIN r : \E j \in DOMAIN q : r[i] = q[j]
  BY <1>5, <1>6
<1>8. /\ Append(r, e) \in Seq(S) /\ Append(r, e) # <<>>
      /\ \A i \in DOMAIN Append(r, e) : Append(r, e)[i] = e \/ (i \in DOMAIN r /\ Append(r, e)[i] = r[i])
  BY <1>3, <1>4, AppendFacts, AppendProperties
<1> QED BY <1>1, <1>2, <1>7, <1>8 DEF Pushed

\* A push brings no event of another key, and none that is there already.
LEMMA PushedSilentDistinct ==
  ASSUME NEW S, NEW q \in Seq(S), NEW e \in S
  PROVE  /\ \A k : Silent(q, k) /\ Key(e) # k => Silent(Pushed(q, e), k)
         /\ Distinct(q) /\ ~Contains(q, e) => Distinct(Pushed(q, e))
<1>1. \A k : Silent(q, k) /\ Key(e) # k => Silent(Pushed(q, e), k)
  <2>1. PICK r : r = Pushed(q, e)
    OBVIOUS
  <2>2. \A i \in DOMAIN r : r[i] = e \/ \E j \in DOMAIN q : r[i] = q[j]
    BY <2>1, PushedEvents
  <2>3. \A k : Silent(q, k) /\ Key(e) # k => Silent(r, k)
    BY <2>2 DEF Silent
  <2> QED BY <2>1, <2>3
<1>2. PICK c : c = Coalesced(q, e)
  OBVIOUS
<1>3. PICK r : r = Evicted(c)
  OBVIOUS
<1>4. c \in Seq(S) /\ r \in Seq(S)
  BY <1>2, <1>3, CoalescedFacts, EvictedFacts
<1>5. DOMAIN q = 1..Len(q) /\ DOMAIN c = 1..Len(c) /\ DOMAIN r = 1..Len(r) /\ Len(r) \in Nat
  BY <1>4, LenProperties
<1>6. ASSUME Distinct(q), ~Contains(q, e) PROVE Distinct(Append(r, e))
  <2>1. Distinct(c) /\ \A i \in DOMAIN c : c[i] # e
    <3>1. \A i \in DOMAIN q : q[i] # e
      BY <1>5, <1>6 DEF Contains
    <3>2. CASE c = q
      BY <1>6, <3>1, <3>2
    <3>3. ASSUME NEW p \in 1..Len(q), Loses(q, c, p)
          PROVE  Distinct(c) /\ \A i \in DOMAIN c : c[i] # e
      BY <1>4, <1>6, <3>1, <3>3, LossSilentDistinct, LosesPositions
    <3> QED BY <1>2, <3>2, <3>3, CoalescedFacts
  <2>2. Distinct(r) /\ \A i \in DOMAIN r : r[i] # e
    <3>1. CASE r = c
      BY <2>1, <3>1
    <3>2. ASSUME NEW p \in 1..Len(c), Loses(c, r, p)
          PROVE  Distinct(r) /\ \A i \in DOMAIN r : r[i] # e
      BY <1>4, <2>1, <3>2, LossSilentDistinct, LosesPositions
    <3> QED BY <1>3, <1>4, <3>1, <3>2, EvictedFacts
  <2>3. \A i \in DOMAIN Append(r, e) : \/ i \in DOMAIN r /\ Append(r, e)[i] = r[i]
                                       \/ i = Len(r) + 1 /\ Append(r, e)[i] = e
    BY <1>4, <1>5, AppendFacts
  <2> QED BY <1>5, <2>2, <2>3 DEF Distinct
<1> QED BY <1>1, <1>2, <1>3, <1>6 DEF Pushed

\* A push keeps the bounds of the mailbox.
LEMMA PushedBounds ==
  ASSUME NEW S, NEW q \in Seq(S), NEW e \in S, OnePerKey(q), Bounded(q)
  PROVE  OnePerKey(Pushed(q, e)) /\ Bounded(Pushed(q, e))
<1>1. PICK c : c = Coalesced(q, e)
  OBVIOUS
<1>2. PICK r : r = Evicted(c)
  OBVIOUS
<1>3. c \in Seq(S) /\ r \in Seq(S)
  BY <1>1, <1>2, CoalescedFacts, EvictedFacts
<1>4. /\ DOMAIN q = 1..Len(q) /\ DOMAIN c = 1..Len(c) /\ DOMAIN r = 1..Len(r)
      /\ Len(q) \in Nat /\ Len(c) \in Nat /\ Len(r) \in Nat /\ Capacity \in Nat
  BY <1>3, LenProperties, NodeEventsAssumption DEF NodeEventsAssumption
<1>5. /\ OnePerKey(c) /\ Bounded(c)
      /\ Level(e) => \A i \in DOMAIN c : Level(c[i]) => Key(c[i]) # Key(e)
  <2>1. CASE c = q /\ (Level(e) => \A i \in DOMAIN q : Level(q[i]) => Key(q[i]) # Key(e))
    BY <2>1
  <2>2. ASSUME NEW p \in 1..Len(q), Loses(q, c, p), Level(e), Level(q[p]), Key(q[p]) = Key(e)
        PROVE  OnePerKey(c) /\ Bounded(c) /\ \A i \in DOMAIN c : Level(c[i]) => Key(c[i]) # Key(e)
    <3>1. OnePerKey(c) /\ Bounded(c)
      BY <1>3, <2>2, LossOnePerKey, LossBounded
    <3>2. \A i \in DOMAIN c : c[i] = q[Skip(p, i)] /\ Skip(p, i) \in DOMAIN q /\ Skip(p, i) # p
      BY <1>3, <2>2, LosesPositions
    <3> QED BY <1>4, <2>2, <3>1, <3>2 DEF OnePerKey
  <2> QED BY <1>1, <2>1, <2>2, CoalescedFacts
<1>6. /\ OnePerKey(r)
      /\ Level(e) => \A i \in DOMAIN r : Level(r[i]) => Key(r[i]) # Key(e)
      /\ Len(r) < Capacity \/ \A i \in DOMAIN r : ~Level(r[i])
  <2>1. CASE r = c /\ (Len(c) < Capacity \/ \A i \in DOMAIN c : ~Level(c[i]))
    BY <2>1, <1>5
  <2>2. ASSUME Len(c) >= Capacity, NEW p \in 1..Len(c), Loses(c, r, p), Level(c[p])
        PROVE  /\ OnePerKey(r)
               /\ Level(e) => \A i \in DOMAIN r : Level(r[i]) => Key(r[i]) # Key(e)
               /\ Len(r) < Capacity \/ \A i \in DOMAIN r : ~Level(r[i])
    <3>1. OnePerKey(r)
      BY <1>3, <1>5, <2>2, LossOnePerKey
    <3>2. \A i \in DOMAIN r : r[i] = c[Skip(p, i)] /\ Skip(p, i) \in DOMAIN c /\ Skip(p, i) # p
      BY <1>3, <2>2, LosesPositions
    <3>3. CASE Len(c) <= Capacity
      <4>1. Len(r) < Capacity
        BY <1>4, <2>2, <3>3 DEF Loses
      <4> QED BY <1>5, <3>1, <3>2, <4>1
    <3>4. CASE \A i, j \in DOMAIN c : Level(c[i]) /\ Level(c[j]) => i = j
      <4>1. \A i \in DOMAIN r : ~Level(r[i])
        BY <1>4, <2>2, <3>2, <3>4
      <4> QED BY <3>1, <4>1
    <3> QED BY <1>5, <3>3, <3>4 DEF Bounded
  <2> QED BY <1>2, <1>3, <2>1, <2>2, EvictedFacts
<1>7. OnePerKey(Append(r, e)) /\ Bounded(Append(r, e))
  BY <1>3, <1>6, AppendOnePerKey, AppendBounded
<1> QED BY <1>1, <1>2, <1>7 DEF Pushed

\* A push loses no reliable event.
LEMMA PushedKeeps ==
  ASSUME NEW S, NEW q \in Seq(S), NEW e \in S, NEW u \in Seq(S), Keeps(q, u)
  PROVE  Keeps(Pushed(q, e), IF Reliable(e) THEN Append(u, e) ELSE u)
<1>1. PICK c : c = Coalesced(q, e)
  OBVIOUS
<1>2. PICK r : r = Evicted(c)
  OBVIOUS
<1>3. c \in Seq(S) /\ r \in Seq(S)
  BY <1>1, <1>2, CoalescedFacts, EvictedFacts
<1>4. Keeps(c, u)
  <2>1. CASE c = q
    BY <2>1
  <2>2. ASSUME NEW p \in 1..Len(q), Loses(q, c, p), Level(q[p]) PROVE Keeps(c, u)
    BY <1>3, <2>2, LossOfLevelKeeps
  <2> QED BY <1>1, <2>1, <2>2, CoalescedFacts
<1>5. Keeps(r, u)
  <2>1. CASE r = c
    BY <1>4, <2>1
  <2>2. ASSUME NEW p \in 1..Len(c), Loses(c, r, p), Level(c[p]) PROVE Keeps(r, u)
    BY <1>3, <1>4, <2>2, LossOfLevelKeeps
  <2> QED BY <1>2, <1>3, <2>1, <2>2, EvictedFacts
<1> QED BY <1>1, <1>2, <1>3, <1>5, AppendKeeps DEF Pushed

\* A push leaves the last event of another key where it is, unless it evicts it.
LEMMA PushedLastOf ==
  ASSUME NEW S, NEW q \in Seq(S), NEW e \in S
  PROVE  /\ \A k : LastOf(Pushed(q, e), k, e)
         /\ \A k, x : LastOf(q, k, x) /\ Key(x) = k /\ Key(e) # k /\ x # Victim(Coalesced(q, e))
                        => LastOf(Pushed(q, e), k, x)
<1>1. PICK c : c = Coalesced(q, e)
  OBVIOUS
<1>2. PICK r : r = Evicted(c)
  OBVIOUS
<1>3. c \in Seq(S) /\ r \in Seq(S)
  BY <1>1, <1>2, CoalescedFacts, EvictedFacts
<1>4. ASSUME NEW k, NEW x, LastOf(q, k, x), Key(x) = k, Key(e) # k, x # Victim(c)
      PROVE  LastOf(Append(r, e), k, x)
  <2>1. LastOf(c, k, x)
    <3>1. CASE c = q
      BY <3>1, <1>4
    <3>2. ASSUME NEW p \in 1..Len(q), Loses(q, c, p), Key(q[p]) = Key(e) PROVE LastOf(c, k, x)
      <4>1. q[p] # x
        BY <1>4, <3>2
      <4> QED BY <1>3, <1>4, <3>2, <4>1, LossLastOf
    <3> QED BY <1>1, <3>1, <3>2, CoalescedFacts
  <2>2. LastOf(r, k, x)
    <3>1. CASE r = c
      BY <3>1, <2>1
    <3>2. ASSUME NEW p \in 1..Len(c), Loses(c, r, p), Victim(c) = c[p] PROVE LastOf(r, k, x)
      BY <1>3, <1>4, <2>1, <3>2, LossLastOf
    <3> QED BY <1>2, <1>3, <3>1, <3>2, EvictedFacts
  <2> QED BY <1>3, <1>4, <2>2, AppendLastOf
<1>5. \A k : LastOf(Append(r, e), k, e)
  BY <1>3, AppendLastOf
<1> QED BY <1>1, <1>2, <1>4, <1>5 DEF Pushed

-----------------------------------------------------------------------------
(* Steps of an operation *)

Kinds == {"status", "state", "sftp", "terminal", "shared"}
Values == States \union Statuses \union {"true", "false"}

\* A step before it is taken: what it names is there.  Only disconnect_node publishes a
\* state with the reason "user".
Planned ==
    {s \in [op : {"publish", "emit", "status", "bind", "detach", "register", "unregister"},
            node : Nodes \union {None}, conn : Conns \union {None}, kind : Kinds \union {""},
            value : Values \union {""}, reason : Reasons, event : {None}] :
        /\ s.op \in {"publish", "bind", "detach", "register"} => s.node \in Nodes
        /\ s.op \in {"emit", "status", "bind", "register", "unregister"} => s.conn \in Conns
        /\ s.op \in {"publish", "emit", "status"} => s.value \in Values
        /\ s.op = "publish" => s.kind \in {"state", "sftp", "terminal", "shared"}
        /\ s.op = "emit" => s.kind \in {"state", "sftp"}
        /\ s.op = "publish" /\ s.kind = "state" => s.reason = "user"
        /\ s.op = "emit" /\ s.kind = "state" => s.reason # "user"}

\* Events with a key of the mailbox.
Sound == {e \in Events : Key(e) \in Keys}

\* A step whose event is to be dispatched or was pushed.
Sent ==
    [op : {"dispatch", "wake"}, node : Nodes \union {None}, conn : Conns \union {None},
     kind : Kinds \union {""}, value : Values \union {""}, reason : Reasons, event : Sound]

\* Only the first step of a thread has been begun.
TodoTyped ==
    /\ todo \in [Threads -> Seq(Planned \union Sent)]
    /\ \A t \in Threads : todo[t] # <<>> => Tail(todo[t]) \in Seq(Planned)

\* The steps of the router's operations are such steps.
LEMMA RouterSteps ==
  ASSUME NEW n \in Nodes
  PROVE  /\ Publish(n, "sftp", "true", "") \in Planned
         /\ Publish(n, "sftp", "false", "") \in Planned
         /\ Publish(n, "terminal", "true", "") \in Planned
         /\ Publish(n, "shared", "true", "") \in Planned
         /\ Publish(n, "shared", "false", "") \in Planned
         /\ Publish(n, "state", "Disconnected", "user") \in Planned
         /\ DetachRuntime(n) \in Planned
<1> USE DEF Planned, Step, Kinds, Values, States, Statuses, Reasons
<1>1. \A kind \in {"sftp", "terminal", "shared"}, value \in {"true", "false"} :
        Publish(n, kind, value, "") \in Planned
  BY DEF Publish
<1>2. Publish(n, "state", "Disconnected", "user") \in Planned
  BY DEF Publish
<1>3. DetachRuntime(n) \in Planned
  BY DEF DetachRuntime
<1> HIDE DEF Planned, Step, Kinds, Values, States, Statuses, Reasons
<1> QED BY <1>1, <1>2, <1>3

\* So are those of the registry's operations.
LEMMA RegistrySteps ==
  ASSUME NEW c \in Conns
  PROVE  /\ \A value \in States : /\ Emit(c, "state", value, "bound") \in Planned
                                 /\ Emit(c, "state", value, "mark") \in Planned
         /\ Emit(c, "state", "Error", "link down") \in Planned
         /\ Emit(c, "state", "Error", "lost") \in Planned
         /\ Emit(c, "state", "Disconnected", "idle timeout") \in Planned
         /\ Emit(c, "sftp", "false", "") \in Planned
         /\ Status(c, "link_down") \in Planned
         /\ Status(c, "connected") \in Planned
         /\ Status(c, "disconnected") \in Planned
         /\ UnregisterConn(c) \in Planned
         /\ \A n \in Nodes : BindRuntime(n, c) \in Planned /\ RegisterConn(n, c) \in Planned
<1> USE DEF Planned, Step, Kinds, Values, States, Statuses, Reasons
<1>1. \A value \in States : /\ Emit(c, "state", value, "bound") \in Planned
                            /\ Emit(c, "state", value, "mark") \in Planned
  BY DEF Emit
<1>2. /\ Emit(c, "state", "Error", "link down") \in Planned
      /\ Emit(c, "state", "Error", "lost") \in Planned
      /\ Emit(c, "state", "Disconnected", "idle timeout") \in Planned
      /\ Emit(c, "sftp", "false", "") \in Planned
  BY DEF Emit
<1>3. /\ Status(c, "link_down") \in Planned
      /\ Status(c, "connected") \in Planned
      /\ Status(c, "disconnected") \in Planned
  BY DEF Status
<1>4. \A n \in Nodes : BindRuntime(n, c) \in Planned /\ RegisterConn(n, c) \in Planned
  BY DEF BindRuntime, RegisterConn
<1>5. UnregisterConn(c) \in Planned
  BY DEF UnregisterConn
<1> HIDE DEF Planned, Step, Kinds, Values, States, Statuses, Reasons
<1> QED BY <1>1, <1>2, <1>3, <1>4, <1>5

\* What a step is about, by its op.
LEMMA PlannedFacts ==
  ASSUME NEW s \in Planned
  PROVE  /\ s.op \notin {"dispatch", "wake"}
         /\ s.node \in Nodes \union {None} /\ s.conn \in Conns \union {None}
         /\ s.kind \in Kinds \union {""} /\ s.value \in Values \union {""} /\ s.reason \in Reasons
         /\ s.op \in {"publish", "bind", "detach", "register"} => s.node \in Nodes
         /\ s.op \in {"emit", "status", "bind", "register", "unregister"} => s.conn \in Conns
         /\ s.op \in {"publish", "emit", "status"} => s.value \in Values
         /\ s.op = "publish" => s.kind \in {"state", "sftp", "terminal", "shared"}
         /\ s.op = "emit" => s.kind \in {"state", "sftp"}
         /\ s.op = "publish" /\ s.kind = "state" => s.reason = "user"
         /\ s.op = "emit" /\ s.kind = "state" => s.reason # "user"
BY DEF Planned

\* A step turns into the dispatch of an event, or into the wake after it.
LEMMA SentStep ==
  ASSUME NEW s \in Planned \union Sent, NEW op \in {"dispatch", "wake"}, NEW e \in Sound
  PROVE  /\ [s EXCEPT !.op = op, !.event = e] \in Sent
         /\ [s EXCEPT !.op = op, !.event = e].op = op
         /\ [s EXCEPT !.op = op, !.event = e].event = e
<1>1. CASE s \in Planned
  BY <1>1 DEF Planned, Sent
<1>2. CASE s \in Sent
  BY <1>2 DEF Sent
<1> QED BY <1>1, <1>2

\* The first step of a thread and the ones after it.
LEMMA HeadFacts ==
  ASSUME TodoTyped, NEW t \in Threads, todo[t] # <<>>
  PROVE  /\ Head(todo[t]) \in Planned \union Sent
         /\ Tail(todo[t]) \in Seq(Planned) /\ Tail(todo[t]) \in Seq(Planned \union Sent)
         /\ Head(todo[t]) \in Planned <=> Head(todo[t]).op \notin {"dispatch", "wake"}
<1>1. todo[t] \in Seq(Planned \union Sent)
  BY DEF TodoTyped
<1>2. Head(todo[t]) \in Planned \union Sent /\ Tail(todo[t]) \in Seq(Planned \union Sent)
  BY <1>1, HeadTailProperties
<1>3. Head(todo[t]) \in Sent => Head(todo[t]).op \in {"dispatch", "wake"}
  BY DEF Sent
<1> QED BY <1>2, <1>3, PlannedFacts DEF TodoTyped

\* A thread is left with planned steps only.
LEMMA PlannedTodo ==
  ASSUME TodoTyped, NEW t \in Threads, NEW rest \in Seq(Planned), todo' = [todo EXCEPT ![t] = rest]
  PROVE  /\ TodoTyped'
         /\ \A u \in Threads \ {t} : todo'[u] = todo[u]
         /\ ~Take(t, "dispatch")' /\ ~Take(t, "wake")'
<1>1. todo'[t] = rest /\ \A u \in Threads \ {t} : todo'[u] = todo[u]
  BY DEF TodoTyped
<1>2. rest \in Seq(Planned \union Sent)
  BY SeqMonotonic
<1>3. rest # <<>> => Head(rest) \in Planned /\ Tail(rest) \in Seq(Planned)
  BY HeadTailProperties
<1>4. TodoTyped'
  BY <1>1, <1>2, <1>3 DEF TodoTyped
<1> QED BY <1>1, <1>3, <1>4, PlannedFacts DEF Take

\* A thread that goes on with the rest.
LEMMA RestTodo ==
  ASSUME TodoTyped, NEW t \in Threads, todo[t] # <<>>, Rest(t)
  PROVE  /\ TodoTyped'
         /\ \A u \in Threads \ {t} : todo'[u] = todo[u]
         /\ ~Take(t, "dispatch")' /\ ~Take(t, "wake")'
<1>1. PICK rest : rest = Tail(todo[t])
  OBVIOUS
<1>2. rest \in Seq(Planned)
  BY <1>1, HeadFacts
<1>3. todo' = [todo EXCEPT ![t] = rest]
  BY <1>1 DEF Rest, TodoTyped
<1> QED BY <1>2, <1>3, PlannedTodo

\* A thread whose first step turns into a dispatch or a wake.
LEMMA SentTodo ==
  ASSUME TodoTyped, NEW t \in Threads, todo[t] # <<>>, NEW s \in Sent,
         todo' = [todo EXCEPT ![t] = <<s>> \o Tail(todo[t])]
  PROVE  /\ TodoTyped'
         /\ \A u \in Threads \ {t} : todo'[u] = todo[u]
         /\ todo'[t] # <<>> /\ Head(todo'[t]) = s
<1>1. PICK rest : rest = Tail(todo[t])
  OBVIOUS
<1>2. rest \in Seq(Planned) /\ rest \in Seq(Planned \union Sent)
  BY <1>1, HeadFacts
<1>3. PICK new : new = <<s>> \o rest
  OBVIOUS
<1>4. todo'[t] = new /\ \A u \in Threads \ {t} : todo'[u] = todo[u]
  BY <1>1, <1>3 DEF TodoTyped
<1>5. new \in Seq(Planned \union Sent) /\ new # <<>> /\ Head(new) = s
  BY <1>2, <1>3
<1>6. Tail(new) = rest
  BY <1>2, <1>3
<1>7. TodoTyped'
  <2>1. todo' \in [Threads -> Seq(Planned \union Sent)]
    BY <1>4, <1>5 DEF TodoTyped
  <2>2. \A u \in Threads : todo'[u] # <<>> => Tail(todo'[u]) \in Seq(Planned)
    BY <1>2, <1>4, <1>6 DEF TodoTyped
  <2> QED BY <2>1, <2>2 DEF TodoTyped
<1> QED BY <1>4, <1>5, <1>7

\* The first step of t becomes the dispatch of e.
LEMMA ThenTodo ==
  ASSUME TodoTyped, NEW t \in Threads, todo[t] # <<>>, NEW e \in Sound, Then(t, e)
  PROVE  /\ TodoTyped'
         /\ \A u \in Threads \ {t} : todo'[u] = todo[u]
         /\ Take(t, "dispatch")' /\ ~Take(t, "wake")' /\ Head(todo'[t]).event = e
<1>1. PICK s : s = [Head(todo[t]) EXCEPT !.op = "dispatch", !.event = e]
  OBVIOUS
<1>2. s \in Sent /\ s.op = "dispatch" /\ s.event = e
  BY <1>1, HeadFacts, SentStep
<1>3. todo' = [todo EXCEPT ![t] = <<s>> \o Tail(todo[t])]
  BY <1>1 DEF Then, TodoTyped
<1>4. TodoTyped' /\ (\A u \in Threads \ {t} : todo'[u] = todo[u]) /\ todo'[t] # <<>> /\ Head(todo'[t]) = s
  BY <1>2, <1>3, SentTodo
<1> QED BY <1>2, <1>4 DEF Take

-----------------------------------------------------------------------------
(* The kinds of steps *)

\* The type invariant with the pending steps and the history.
Typed ==
    /\ TypeOK
    /\ TodoTyped
    /\ queue \in Seq(Sound)
    /\ unread \in Seq(Sound)
    /\ latest \in [Keys -> Sound \union {None}]
    /\ \A k \in Keys : latest[k] # None => Key(latest[k]) = k

\* The event a thread dispatches.
Ev(t) == Head(todo[t]).event

\* Two events of these kinds never have the same number, if it is the same counter's.
Numbered(e) == e.kind \in {"state", "shared"}

\* The counter that numbered an event: the runtime entry's for what the runtime store
\* publishes, the sequencer's for what the emitter does.
Counter(e) ==
    IF e.kind = "shared" \/ e.reason = "user" THEN generation[e.about] ELSE sequence[e.about]

\* A step of t outside the mailbox; counters are never set back.
Outside(t) ==
    /\ TodoTyped'
    /\ \A u \in Threads \ {t} : todo'[u] = todo[u]
    /\ ~Take(t, "wake") /\ ~Take(t, "wake")'
    /\ calls' \in 0..MaxCalls
    /\ bound' \in [Nodes -> Conns \union {None}]
    /\ owner' \in [Conns -> Nodes \union {None}]
    /\ generation' \in [Nodes -> Nat] /\ \A n \in Nodes : generation[n] <= generation'[n]
    /\ sequence' \in [Nodes -> Nat] /\ \A n \in Nodes : sequence[n] <= sequence'[n]
    /\ UNCHANGED mailbox

\* A step without an event.
Plans(t) == Outside(t) /\ ~Take(t, "dispatch")'

\* A step that builds an event, with a number of its own where the kind has one.
Builds(t) ==
    /\ Outside(t)
    /\ Take(t, "dispatch")'
    /\ \E e \in Sound :
          /\ Ev(t)' = e
          /\ Numbered(e) => Counter(e) < e.gen /\ e.gen <= Counter(e)'

\* The types of the variables outside the mailbox, taken apart.
LEMMA TypedFacts ==
  ASSUME Typed
  PROVE  /\ TodoTyped
         /\ calls \in 0..MaxCalls /\ MaxCalls \in Nat
         /\ bound \in [Nodes -> Conns \union {None}]
         /\ owner \in [Conns -> Nodes \union {None}]
         /\ generation \in [Nodes -> Nat] /\ sequence \in [Nodes -> Nat]
         /\ \A t \in Threads : holder = t <=> Take(t, "wake")
BY NodeEventsAssumption DEF Typed, TypeOK, NodeEventsAssumption

\* The beginning of an operation.
LEMMA StartPlans ==
  ASSUME Typed, NEW t \in Threads, MayStart(t), NEW steps \in Seq(Planned), Start(t, steps)
  PROVE  Plans(t)
<1>1. todo' = [todo EXCEPT ![t] = steps]
  BY DEF Start
<1>2. TodoTyped' /\ (\A u \in Threads \ {t} : todo'[u] = todo[u]) /\ ~Take(t, "dispatch")' /\ ~Take(t, "wake")'
  BY <1>1, TypedFacts, PlannedTodo
<1>3. ~Take(t, "wake")
  BY DEF MayStart, Take
<1>4. calls' \in 0..MaxCalls
  BY TypedFacts DEF Start, MayStart
<1>5. UNCHANGED <<bound, generation, sequence, owner, mailbox>>
  BY DEF Start
<1>6. \A n \in Nodes : generation[n] <= generation'[n] /\ sequence[n] <= sequence'[n]
  BY <1>5, TypedFacts
<1> QED BY <1>2, <1>3, <1>4, <1>5, <1>6, TypedFacts DEF Plans, Outside

\* Sequences of planned steps, spelled out.
LEMMA PlannedTuples ==
  /\ <<>> \in Seq(Planned)
  /\ \A a \in Planned : <<a>> \in Seq(Planned)
  /\ \A a, b \in Planned : <<a, b>> \in Seq(Planned)
  /\ \A a, b, c \in Planned : <<a, b, c>> \in Seq(Planned)
  /\ \A a, b, c, d \in Planned : <<a, b, c, d>> \in Seq(Planned)
OBVIOUS

\* The operations of the router.
LEMMA RouterPlans ==
  ASSUME Typed, NEW t \in Threads, RouterCall(t)
  PROVE  Plans(t)
<1>1. MayStart(t)
  BY DEF RouterCall
<1>2. PICK n \in Nodes :
          \/ \E c \in Conns : BindConnection(t, n, c)
          \/ DisconnectNodeRuntime(t, n)
          \/ PrepareConnectionAttempt(t, n)
          \/ BindTerminalEndpoint(t, n)
          \/ MarkSftpReadyFromListing(t, n)
          \/ AcquireSftp(t, n)
          \/ InvalidateSftp(t, n)
  BY DEF RouterCall
<1>3. ASSUME NEW c \in Conns, BindConnection(t, n, c) PROVE Plans(t)
  <2>1. PICK s \in Marks :
          Start(t, <<BindRuntime(n, c), RegisterConn(n, c), Emit(c, "state", s, "bound")>>)
    BY <1>3 DEF BindConnection
  <2>2. s \in States
    BY NodeEventsAssumption DEF NodeEventsAssumption, States
  <2>3. BindRuntime(n, c) \in Planned /\ RegisterConn(n, c) \in Planned /\ Emit(c, "state", s, "bound") \in Planned
    BY <2>2, RegistrySteps
  <2>4. <<BindRuntime(n, c), RegisterConn(n, c), Emit(c, "state", s, "bound")>> \in Seq(Planned)
    BY <2>3, PlannedTuples, Zenon
  <2> QED BY <1>1, <2>1, <2>4, StartPlans
<1>4. CASE DisconnectNodeRuntime(t, n)
  <2>1. Publish(n, "sftp", "false", "") \in Planned /\ Publish(n, "state", "Disconnected", "user") \in Planned
    BY RouterSteps
  <2>2. <<Publish(n, "sftp", "false", ""), Publish(n, "state", "Disconnected", "user")>> \in Seq(Planned)
    BY <2>1, PlannedTuples, Zenon
  <2> QED BY <1>1, <1>4, <2>2, StartPlans DEF DisconnectNodeRuntime
<1>5. CASE PrepareConnectionAttempt(t, n)
  <2>1. PICK more : more = IF bound[n] = None THEN <<>> ELSE <<UnregisterConn(bound[n])>>
    OBVIOUS
  <2>2. DetachRuntime(n) \in Planned /\ (bound[n] # None => UnregisterConn(bound[n]) \in Planned)
    BY TypedFacts, RouterSteps, RegistrySteps
  <2>3. <<DetachRuntime(n)>> \in Seq(Planned) /\ more \in Seq(Planned)
    BY <2>1, <2>2
  <2>4. <<DetachRuntime(n)>> \o more \in Seq(Planned)
    BY <2>3, ConcatProperties
  <2>5. Start(t, <<DetachRuntime(n)>> \o more)
    BY <1>5, <2>1 DEF PrepareConnectionAttempt
  <2> QED BY <1>1, <2>4, <2>5, StartPlans
<1>6. CASE BindTerminalEndpoint(t, n)
  <2>1. <<Publish(n, "terminal", "true", "")>> \in Seq(Planned)
    BY RouterSteps, PlannedTuples, Zenon
  <2> QED BY <1>1, <1>6, <2>1, StartPlans DEF BindTerminalEndpoint
<1>7. CASE MarkSftpReadyFromListing(t, n)
  <2>1. <<Publish(n, "sftp", "true", "")>> \in Seq(Planned)
    BY RouterSteps, PlannedTuples, Zenon
  <2> QED BY <1>1, <1>7, <2>1, StartPlans DEF MarkSftpReadyFromListing
<1>8. CASE AcquireSftp(t, n)
  <2>1. <<Publish(n, "sftp", "true", ""), Publish(n, "shared", "true", "")>> \in Seq(Planned)
    BY RouterSteps, PlannedTuples, Zenon
  <2> QED BY <1>1, <1>8, <2>1, StartPlans DEF AcquireSftp
<1>9. CASE InvalidateSftp(t, n)
  <2>1. /\ Publish(n, "sftp", "false", "") \in Planned /\ Publish(n, "shared", "false", "") \in Planned
        /\ Publish(n, "sftp", "true", "") \in Planned /\ Publish(n, "shared", "true", "") \in Planned
    BY RouterSteps
  <2>2. PICK first \in {<<Publish(n, "sftp", "false", ""), Publish(n, "shared", "false", "")>>, <<>>},
             second \in {<<Publish(n, "sftp", "true", ""), Publish(n, "shared", "true", "")>>, <<>>} :
          Start(t, first \o second)
    BY <1>9 DEF InvalidateSftp
  <2>3. first \in Seq(Planned) /\ second \in Seq(Planned)
    BY <2>1, <2>2, PlannedTuples, Zenon
  <2>4. first \o second \in Seq(Planned)
    BY <2>3, ConcatProperties
  <2> QED BY <1>1, <2>2, <2>4, StartPlans
<1> QED BY <1>2, <1>3, <1>4, <1>5, <1>6, <1>7, <1>8, <1>9

\* The operations of the registry.
LEMMA RegistryPlans ==
  ASSUME Typed, NEW t \in Threads, RegistryCall(t)
  PROVE  Plans(t)
<1>1. MayStart(t)
  BY DEF RegistryCall
<1>2. PICK c \in Conns : MarkState(t, c) \/ TransportLost(t, c) \/ ProbeRecovers(t, c) \/ IdleTimeout(t, c)
  BY DEF RegistryCall
<1>3. CASE MarkState(t, c)
  <2>1. PICK s \in Marks : Start(t, <<Emit(c, "state", s, "mark")>>)
    BY <1>3 DEF MarkState
  <2>2. s \in States
    BY NodeEventsAssumption DEF NodeEventsAssumption, States
  <2>3. <<Emit(c, "state", s, "mark")>> \in Seq(Planned)
    BY <2>2, RegistrySteps, PlannedTuples, Zenon
  <2> QED BY <1>1, <2>1, <2>3, StartPlans
<1>4. CASE TransportLost(t, c)
  <2>1. PICK first \in {<<Status(c, "link_down"), Emit(c, "state", "Error", "link down")>>, <<>>} :
          Start(t, first \o <<Emit(c, "state", "Error", "lost")>>)
    BY <1>4 DEF TransportLost
  <2>2. /\ Status(c, "link_down") \in Planned /\ Emit(c, "state", "Error", "link down") \in Planned
        /\ Emit(c, "state", "Error", "lost") \in Planned
    BY RegistrySteps
  <2>3. first \in Seq(Planned) /\ <<Emit(c, "state", "Error", "lost")>> \in Seq(Planned)
    BY <2>1, <2>2, PlannedTuples, Zenon
  <2>4. first \o <<Emit(c, "state", "Error", "lost")>> \in Seq(Planned)
    BY <2>3, ConcatProperties
  <2> QED BY <1>1, <2>1, <2>4, StartPlans
<1>5. CASE ProbeRecovers(t, c)
  <2>1. <<Status(c, "connected")>> \in Seq(Planned)
    BY RegistrySteps, PlannedTuples, Zenon
  <2> QED BY <1>1, <1>5, <2>1, StartPlans DEF ProbeRecovers
<1>6. CASE IdleTimeout(t, c)
  <2>1. /\ Status(c, "disconnected") \in Planned /\ Emit(c, "sftp", "false", "") \in Planned
        /\ Emit(c, "state", "Disconnected", "idle timeout") \in Planned /\ UnregisterConn(c) \in Planned
    BY RegistrySteps
  <2>2. <<Status(c, "disconnected"), Emit(c, "sftp", "false", ""),
          Emit(c, "state", "Disconnected", "idle timeout"), UnregisterConn(c)>> \in Seq(Planned)
    BY <2>1, PlannedTuples, Zenon
  <2> QED BY <1>1, <1>6, <2>2, StartPlans DEF IdleTimeout
<1> QED BY <1>2, <1>3, <1>4, <1>5, <1>6

\* Events about a node.
LEMMA EventFacts ==
  ASSUME NEW kind \in {"state", "sftp", "terminal", "shared"}, NEW about \in Nodes,
         NEW gen \in Nat, NEW value \in Values, NEW reason \in Reasons
  PROVE  /\ Event(kind, about, gen, value, reason) \in Sound
         /\ Event(kind, about, gen, value, reason).kind = kind
         /\ Event(kind, about, gen, value, reason).about = about
         /\ Event(kind, about, gen, value, reason).gen = gen
         /\ Event(kind, about, gen, value, reason).reason = reason
<1>1. PICK e : e = Event(kind, about, gen, value, reason)
  OBVIOUS
<1>2. e.kind = kind /\ e.about = about /\ e.gen = gen /\ e.reason = reason /\ e.value = value
  BY <1>1 DEF Event
<1>3. e \in Events
  BY <1>1 DEF Event, Events, Values
<1>4. Key(e) = <<about, kind>>
  BY <1>2 DEF Key
<1>5. <<about, kind>> \in Keys
  BY DEF Keys
<1> QED BY <1>1, <1>2, <1>3, <1>4, <1>5 DEF Sound

\* Steps on the runtime entry and on the emitter's index.
LEMMA QuietPlans ==
  ASSUME Typed, NEW t \in Threads, BindStep(t) \/ DetachStep(t) \/ RegisterStep(t)
  PROVE  Plans(t)
<1>1. todo[t] # <<>> /\ Head(todo[t]).op \in {"bind", "detach", "register", "unregister"} /\ Rest(t)
  BY DEF BindStep, DetachStep, RegisterStep, Take
<1>2. Head(todo[t]) \in Planned
  BY <1>1, TypedFacts, HeadFacts
<1>3. ~Take(t, "wake")
  BY <1>1 DEF Take
<1>4. TodoTyped' /\ (\A u \in Threads \ {t} : todo'[u] = todo[u]) /\ ~Take(t, "dispatch")' /\ ~Take(t, "wake")'
  BY <1>1, TypedFacts, RestTodo
<1>5. CASE BindStep(t)
  <2>1. Head(todo[t]).node \in Nodes /\ Head(todo[t]).conn \in Conns
    BY <1>2, <1>5, PlannedFacts DEF BindStep, Take
  <2>2. bound' \in [Nodes -> Conns \union {None}]
    BY <1>5, <2>1, TypedFacts DEF BindStep
  <2>3. generation' \in [Nodes -> Nat] /\ \A n \in Nodes : generation[n] <= generation'[n]
    BY <1>5, <2>1, TypedFacts DEF BindStep
  <2>4. UNCHANGED <<calls, sequence, owner, mailbox>>
    BY <1>5 DEF BindStep
  <2>5. \A n \in Nodes : sequence[n] <= sequence'[n]
    BY <2>4, TypedFacts
  <2> QED BY <1>3, <1>4, <2>2, <2>3, <2>4, <2>5, TypedFacts DEF Plans, Outside
<1>6. CASE DetachStep(t)
  <2>1. Head(todo[t]).node \in Nodes
    BY <1>2, <1>6, PlannedFacts DEF DetachStep, Take
  <2>2. bound' \in [Nodes -> Conns \union {None}]
    BY <1>6, <2>1, TypedFacts DEF DetachStep
  <2>3. generation' \in [Nodes -> Nat] /\ \A n \in Nodes : generation[n] <= generation'[n]
    BY <1>6, <2>1, TypedFacts DEF DetachStep
  <2>4. UNCHANGED <<calls, sequence, owner, mailbox>>
    BY <1>6 DEF DetachStep
  <2>5. \A n \in Nodes : sequence[n] <= sequence'[n]
    BY <2>4, TypedFacts
  <2> QED BY <1>3, <1>4, <2>2, <2>3, <2>4, <2>5, TypedFacts DEF Plans, Outside
<1>7. CASE RegisterStep(t)
  <2>1. owner' \in [Conns -> Nodes \union {None}]
    <3>1. CASE Take(t, "register") /\ owner' = [owner EXCEPT ![Head(todo[t]).conn] = Head(todo[t]).node]
      <4>1. Head(todo[t]).node \in Nodes
        BY <1>2, <3>1, PlannedFacts DEF Take
      <4> QED BY <3>1, <4>1, TypedFacts
    <3>2. CASE Take(t, "unregister") /\ owner' = [owner EXCEPT ![Head(todo[t]).conn] = None]
      BY <3>2, TypedFacts
    <3> QED BY <1>7, <3>1, <3>2 DEF RegisterStep
  <2>2. UNCHANGED <<calls, bound, generation, sequence, mailbox>>
    BY <1>7 DEF RegisterStep
  <2>3. \A n \in Nodes : sequence[n] <= sequence'[n] /\ generation[n] <= generation'[n]
    BY <2>2, TypedFacts
  <2> QED BY <1>3, <1>4, <2>1, <2>2, <2>3, TypedFacts DEF Plans, Outside
<1> QED BY <1>5, <1>6, <1>7

\* The runtime store numbers an event with the entry's generation.
LEMMA PublishBuilds ==
  ASSUME Typed, NEW t \in Threads, PublishStep(t)
  PROVE  Builds(t)
<1>1. PICK s : s = Head(todo[t])
  OBVIOUS
<1>2. todo[t] # <<>> /\ s.op = "publish" /\ ~Take(t, "wake")
  BY <1>1 DEF PublishStep, Take
<1>3. s \in Planned
  BY <1>1, <1>2, TypedFacts, HeadFacts
<1>4. /\ s.node \in Nodes /\ s.value \in Values /\ s.reason \in Reasons
      /\ s.kind \in {"state", "sftp", "terminal", "shared"} /\ (s.kind = "state" => s.reason = "user")
  BY <1>2, <1>3, PlannedFacts
<1>5. PICK e : e = Event(s.kind, s.node, generation[s.node] + 1, s.value, s.reason)
  OBVIOUS
<1>6. generation[s.node] + 1 \in Nat
  BY <1>4, TypedFacts
<1>7. e \in Sound /\ e.kind = s.kind /\ e.about = s.node /\ e.gen = generation[s.node] + 1 /\ e.reason = s.reason
  BY <1>4, <1>5, <1>6, EventFacts
<1>8. /\ generation' = [generation EXCEPT ![s.node] = @ + 1]
      /\ bound' = [bound EXCEPT ![s.node] = IF s.kind = "state" THEN None ELSE @]
      /\ Then(t, e)
      /\ UNCHANGED <<calls, sequence, owner, mailbox>>
  BY <1>1, <1>5 DEF PublishStep
<1>9. /\ TodoTyped' /\ (\A u \in Threads \ {t} : todo'[u] = todo[u])
      /\ Take(t, "dispatch")' /\ ~Take(t, "wake")' /\ Ev(t)' = e
  BY <1>2, <1>7, <1>8, TypedFacts, ThenTodo DEF Ev
<1>10. bound' \in [Nodes -> Conns \union {None}]
  BY <1>4, <1>8, TypedFacts
<1>11. generation' \in [Nodes -> Nat] /\ \A n \in Nodes : generation[n] <= generation'[n]
  BY <1>4, <1>8, TypedFacts
<1>12. \A n \in Nodes : sequence[n] <= sequence'[n]
  BY <1>8, TypedFacts
<1>13. Outside(t)
  BY <1>2, <1>8, <1>9, <1>10, <1>11, <1>12, TypedFacts DEF Outside
<1>14. Numbered(e) => Counter(e) < e.gen /\ e.gen <= Counter(e)'
  <2>1. Numbered(e) => Counter(e) = generation[s.node] /\ Counter(e)' = generation'[s.node]
    BY <1>4, <1>7 DEF Numbered, Counter
  <2>2. generation'[s.node] = generation[s.node] + 1 /\ generation[s.node] \in Nat
    BY <1>4, <1>8, TypedFacts
  <2> QED BY <1>7, <2>1, <2>2
<1> QED BY <1>7, <1>9, <1>13, <1>14 DEF Builds

\* The emitter numbers an event with the sequencer; without an owner there is none.
LEMMA EmitBuilds ==
  ASSUME Typed, NEW t \in Threads, EmitStep(t)
  PROVE  Plans(t) \/ Builds(t)
<1>1. PICK s : s = Head(todo[t])
  OBVIOUS
<1>2. todo[t] # <<>> /\ s.op = "emit" /\ ~Take(t, "wake")
  BY <1>1 DEF EmitStep, Take
<1>3. s \in Planned
  BY <1>1, <1>2, TypedFacts, HeadFacts
<1>4. /\ s.conn \in Conns /\ s.value \in Values /\ s.reason \in Reasons
      /\ s.kind \in {"state", "sftp"} /\ (s.kind = "state" => s.reason # "user")
  BY <1>2, <1>3, PlannedFacts
<1>5. PICK n : n = owner[s.conn]
  OBVIOUS
<1>6. UNCHANGED <<calls, bound, generation, owner, mailbox>>
  BY DEF EmitStep
<1>7. \A m \in Nodes : generation[m] <= generation'[m]
  BY <1>6, TypedFacts
<1>8. CASE n = None
  <2>1. Rest(t) /\ UNCHANGED sequence
    BY <1>1, <1>5, <1>8 DEF EmitStep
  <2>2. TodoTyped' /\ (\A u \in Threads \ {t} : todo'[u] = todo[u]) /\ ~Take(t, "dispatch")' /\ ~Take(t, "wake")'
    BY <1>2, <2>1, TypedFacts, RestTodo
  <2>3. \A m \in Nodes : sequence[m] <= sequence'[m]
    BY <2>1, TypedFacts
  <2> QED BY <1>2, <1>6, <1>7, <2>1, <2>2, <2>3, TypedFacts DEF Plans, Outside
<1>9. CASE n # None
  <2>1. n \in Nodes
    BY <1>4, <1>5, <1>9, TypedFacts
  <2>2. PICK e : e = Event(s.kind, n, sequence[n] + 1, s.value, s.reason)
    OBVIOUS
  <2>3. sequence[n] + 1 \in Nat
    BY <2>1, TypedFacts
  <2>4. e \in Sound /\ e.kind = s.kind /\ e.about = n /\ e.gen = sequence[n] + 1 /\ e.reason = s.reason
    BY <1>4, <2>1, <2>2, <2>3, EventFacts
  <2>5. sequence' = [sequence EXCEPT ![n] = @ + 1] /\ Then(t, e)
    BY <1>1, <1>5, <1>9, <2>2 DEF EmitStep
  <2>6. /\ TodoTyped' /\ (\A u \in Threads \ {t} : todo'[u] = todo[u])
        /\ Take(t, "dispatch")' /\ ~Take(t, "wake")' /\ Ev(t)' = e
    BY <1>2, <2>4, <2>5, TypedFacts, ThenTodo DEF Ev
  <2>7. sequence' \in [Nodes -> Nat] /\ \A m \in Nodes : sequence[m] <= sequence'[m]
    BY <2>1, <2>5, TypedFacts
  <2>8. Outside(t)
    BY <1>2, <1>6, <1>7, <2>6, <2>7, TypedFacts DEF Outside
  <2>9. Numbered(e) => Counter(e) < e.gen /\ e.gen <= Counter(e)'
    <3>1. Numbered(e) => Counter(e) = sequence[n] /\ Counter(e)' = sequence'[n]
      BY <1>4, <2>4 DEF Numbered, Counter
    <3>2. sequence'[n] = sequence[n] + 1 /\ sequence[n] \in Nat
      BY <2>1, <2>5, TypedFacts
    <3> QED BY <2>4, <3>1, <3>2
  <2> QED BY <2>4, <2>6, <2>8, <2>9 DEF Builds
<1> QED BY <1>8, <1>9

\* A status event has no number.
LEMMA StatusBuilds ==
  ASSUME Typed, NEW t \in Threads, StatusStep(t)
  PROVE  Builds(t)
<1>1. PICK s : s = Head(todo[t])
  OBVIOUS
<1>2. todo[t] # <<>> /\ s.op = "status" /\ ~Take(t, "wake")
  BY <1>1 DEF StatusStep, Take
<1>3. s \in Planned
  BY <1>1, <1>2, TypedFacts, HeadFacts
<1>4. s.conn \in Conns /\ s.value \in Values
  BY <1>2, <1>3, PlannedFacts
<1>5. PICK ms \in {0, 1} : Then(t, Event("status", s.conn, ms, s.value, ""))
  BY <1>1 DEF StatusStep
<1>6. UNCHANGED <<calls, bound, generation, sequence, owner, mailbox>>
  BY DEF StatusStep
<1>7. PICK e : e = Event("status", s.conn, ms, s.value, "")
  OBVIOUS
<1>8. "" \in Reasons /\ ms \in Nat
  BY DEF Reasons
<1>9. e \in Sound /\ e.kind = "status"
  <2>1. e \in Events /\ e.kind = "status" /\ e.about = s.conn
    BY <1>4, <1>7, <1>8 DEF Event, Events, Values
  <2>2. Key(e) \in Keys
    BY <1>4, <2>1 DEF Key, Keys
  <2> QED BY <2>1, <2>2 DEF Sound
<1>10. /\ TodoTyped' /\ (\A u \in Threads \ {t} : todo'[u] = todo[u])
       /\ Take(t, "dispatch")' /\ ~Take(t, "wake")' /\ Ev(t)' = e
  BY <1>2, <1>5, <1>7, <1>9, TypedFacts, ThenTodo DEF Ev
<1>11. \A n \in Nodes : sequence[n] <= sequence'[n] /\ generation[n] <= generation'[n]
  BY <1>6, TypedFacts
<1>12. Outside(t)
  BY <1>2, <1>6, <1>10, <1>11, TypedFacts DEF Outside
<1>13. ~Numbered(e)
  BY <1>9 DEF Numbered
<1> QED BY <1>9, <1>10, <1>12, <1>13 DEF Builds

\* What no step of the mailbox changes.
Elsewhere == <<calls, bound, generation, sequence, owner>>

\* The thread t leaves the mailbox, or stays in it with another step.
Leaves(t) ==
    /\ TodoTyped'
    /\ \A u \in Threads \ {t} : todo'[u] = todo[u]
    /\ ~Take(t, "dispatch")'

\* A dispatch without a push: nobody subscribes, or the event is there already.
Skips(t) ==
    /\ Take(t, "dispatch") /\ holder = None
    /\ Leaves(t) /\ ~Take(t, "wake")'
    /\ Ev(t) \in Sound
    /\ \/ UNCHANGED <<latest, evicted>>
       \/ /\ Contains(queue, Ev(t)) /\ latest' = [latest EXCEPT ![Key(Ev(t))] = Ev(t)]
          /\ evicted' = evicted \ {Key(Ev(t))}
    /\ UNCHANGED <<queue, holder, unread, subscribed, receiver, woken, Elsewhere>>

\* A dispatch with a push.
Pushes(t) ==
    /\ Take(t, "dispatch") /\ holder = None
    /\ Leaves(t) /\ Take(t, "wake")'
    /\ Ev(t) \in Sound
    /\ ~Contains(queue, Ev(t))
    /\ queue' = Pushed(queue, Ev(t))
    /\ holder' = t
    /\ unread' = IF Reliable(Ev(t)) THEN Append(unread, Ev(t)) ELSE unread
    /\ latest' = [k \in Keys |-> IF k = Key(Ev(t)) THEN Ev(t)
                                ELSE IF latest[k] = Victim(Coalesced(queue, Ev(t))) THEN None
                                ELSE latest[k]]
    /\ evicted' = {k \in Keys \ {Key(Ev(t))} :
                     k \in evicted \/ (latest[k] # None /\ latest[k] = Victim(Coalesced(queue, Ev(t))))}
    /\ UNCHANGED <<subscribed, receiver, woken, Elsewhere>>

\* The callback and the release of mailbox_listeners.
Wakes(t) ==
    /\ Take(t, "wake")
    /\ Leaves(t) /\ ~Take(t, "wake")'
    /\ woken' = TRUE /\ holder' = None
    /\ UNCHANGED <<queue, subscribed, receiver, unread, latest, evicted, Elsewhere>>

\* The event of a thread that dispatches is one of the mailbox's.
LEMMA EvSound ==
  ASSUME Typed, NEW t \in Threads, Take(t, "dispatch") \/ Take(t, "wake")
  PROVE  Ev(t) \in Sound
<1>1. todo[t] # <<>> /\ Head(todo[t]).op \in {"dispatch", "wake"}
  BY DEF Take
<1>2. Head(todo[t]) \in Sent
  BY <1>1, TypedFacts, HeadFacts, PlannedFacts
<1> QED BY <1>2 DEF Sent, Ev

\* A dispatch is one of the two.
LEMMA DispatchKinds ==
  ASSUME Typed, NEW t \in Threads, Dispatch(t)
  PROVE  Skips(t) \/ Pushes(t)
<1>1. PICK e : e = Ev(t)
  OBVIOUS
<1>2. todo[t] # <<>> /\ Take(t, "dispatch") /\ holder = None
  BY DEF Dispatch, Take
<1>3. e \in Sound
  BY <1>1, <1>2, EvSound
<1>4. UNCHANGED <<calls, bound, generation, sequence, owner, subscribed, receiver, woken>>
  BY DEF Dispatch
<1>5. ASSUME ~subscribed \/ Contains(queue, e), Rest(t),
             latest' = IF subscribed THEN [latest EXCEPT ![Key(e)] = e] ELSE latest,
             evicted' = IF subscribed THEN evicted \ {Key(e)} ELSE evicted,
             UNCHANGED <<queue, holder, unread>>
      PROVE  Skips(t)
  <2>1. TodoTyped' /\ (\A u \in Threads \ {t} : todo'[u] = todo[u]) /\ ~Take(t, "dispatch")' /\ ~Take(t, "wake")'
    BY <1>2, <1>5, TypedFacts, RestTodo
  <2>2. \/ UNCHANGED <<latest, evicted>>
        \/ /\ Contains(queue, e) /\ latest' = [latest EXCEPT ![Key(e)] = e]
           /\ evicted' = evicted \ {Key(e)}
    BY <1>5
  <2> QED BY <1>1, <1>2, <1>3, <1>4, <1>5, <2>1, <2>2 DEF Skips, Leaves, Elsewhere
<1>6. ASSUME ~Contains(queue, e), queue' = Pushed(queue, e), holder' = t,
             unread' = IF Reliable(e) THEN Append(unread, e) ELSE unread,
             latest' = [k \in Keys |-> IF k = Key(e) THEN e
                                      ELSE IF latest[k] = Victim(Coalesced(queue, e)) THEN None
                                      ELSE latest[k]],
             evicted' = {k \in Keys \ {Key(e)} :
                           k \in evicted \/ (latest[k] # None /\ latest[k] = Victim(Coalesced(queue, e)))},
             todo' = [todo EXCEPT ![t] = <<[Head(@) EXCEPT !.op = "wake"]>> \o Tail(@)]
      PROVE  Pushes(t)
  <2>1. PICK s : s = [Head(todo[t]) EXCEPT !.op = "wake"]
    OBVIOUS
  <2>2. Head(todo[t]) \in Sent
    BY <1>2, TypedFacts, HeadFacts, PlannedFacts DEF Take
  <2>3. s \in Sent /\ s.op = "wake"
    BY <2>1, <2>2 DEF Sent
  <2>4. todo' = [todo EXCEPT ![t] = <<s>> \o Tail(todo[t])]
    BY <1>6, <2>1, TypedFacts DEF TodoTyped
  <2>5. TodoTyped' /\ (\A u \in Threads \ {t} : todo'[u] = todo[u]) /\ todo'[t] # <<>> /\ Head(todo'[t]) = s
    BY <1>2, <2>3, <2>4, TypedFacts, SentTodo
  <2>6. Take(t, "wake")' /\ ~Take(t, "dispatch")'
    BY <2>3, <2>5 DEF Take
  <2> QED BY <1>1, <1>2, <1>3, <1>4, <1>6, <2>5, <2>6 DEF Pushes, Leaves, Elsewhere
<1> QED BY <1>1, <1>5, <1>6 DEF Dispatch, Pushed, Ev

\* The wake.
LEMMA WakeKind ==
  ASSUME Typed, NEW t \in Threads, Wake(t)
  PROVE  Wakes(t)
<1>1. todo[t] # <<>> /\ Rest(t) /\ Take(t, "wake")
  BY DEF Wake, Take
<1>2. TodoTyped' /\ (\A u \in Threads \ {t} : todo'[u] = todo[u]) /\ ~Take(t, "dispatch")' /\ ~Take(t, "wake")'
  BY <1>1, TypedFacts, RestTodo
<1> QED BY <1>1, <1>2 DEF Wake, Wakes, Leaves, Elsewhere

\* Every step is of one of these kinds or a step of the subscription and its consumer.
LEMMA StepKinds ==
  ASSUME Typed, Next
  PROVE  \/ \E t \in Threads : Plans(t) \/ Builds(t) \/ Skips(t) \/ Pushes(t) \/ Wakes(t)
         \/ Unsubscribe \/ ReceiverWakes \/ TryRecv \/ TryRecvEmpty
<1>1. ASSUME NEW t \in Threads, RouterCall(t) \/ RegistryCall(t) \/ Continue(t)
      PROVE  Plans(t) \/ Builds(t) \/ Skips(t) \/ Pushes(t) \/ Wakes(t)
  <2>1. CASE RouterCall(t) \/ RegistryCall(t)
    BY <2>1, RouterPlans, RegistryPlans
  <2>2. CASE Continue(t)
    BY <2>2, QuietPlans, PublishBuilds, EmitBuilds, StatusBuilds, DispatchKinds, WakeKind DEF Continue
  <2> QED BY <1>1, <2>1, <2>2
<1> QED BY <1>1 DEF Next

-----------------------------------------------------------------------------
(* Types *)

\* Everything about the mailbox in Typed, to be shown after a step.
MailboxTyped ==
    /\ queue \in Seq(Sound)
    /\ unread \in Seq(Sound)
    /\ latest \in [Keys -> Sound \union {None}]
    /\ \A k \in Keys : latest[k] # None => Key(latest[k]) = k
    /\ holder \in Threads \union {None}
    /\ \A t \in Threads : holder = t <=> Take(t, "wake")
    /\ subscribed \in BOOLEAN
    /\ receiver \in {"asleep", "draining"}
    /\ woken \in BOOLEAN

\* And everything else.
ElsewhereTyped ==
    /\ calls \in 0..MaxCalls
    /\ bound \in [Nodes -> Conns \union {None}]
    /\ generation \in [Nodes -> Nat]
    /\ sequence \in [Nodes -> Nat]
    /\ owner \in [Conns -> Nodes \union {None}]

\* Typed is these two and the pending steps.
LEMMA TypedParts == Typed <=> TodoTyped /\ MailboxTyped /\ ElsewhereTyped
<1>1. queue \in Seq(Sound) => queue \in Seq(Events)
  BY SeqMonotonic DEF Sound
<1> QED BY <1>1 DEF Typed, TypeOK, MailboxTyped, ElsewhereTyped

\* Initially the types are right.
LEMMA TypedInit == ASSUME Init PROVE Typed
<1>1. TodoTyped
  BY DEF Init, TodoTyped
<1>2. MailboxTyped
  <2>1. queue = <<>> /\ unread = <<>> /\ queue \in Seq(Sound) /\ unread \in Seq(Sound)
    BY DEF Init
  <2>2. latest = [k \in Keys |-> None] /\ holder = None /\ subscribed = TRUE /\ woken = FALSE /\ receiver = "asleep"
    BY DEF Init
  <2>3. \A t \in Threads : ~Take(t, "wake") /\ None # t
    BY NodeEventsAssumption DEF Init, Take, NodeEventsAssumption
  <2> QED BY <2>1, <2>2, <2>3 DEF MailboxTyped
<1>3. ElsewhereTyped
  <2>1. calls \in 0..MaxCalls
    BY NodeEventsAssumption DEF Init, NodeEventsAssumption
  <2>2. CASE /\ bound = [n \in Nodes |-> None]
             /\ generation = [n \in Nodes |-> 0]
             /\ owner = [c \in Conns |-> None]
    BY <2>1, <2>2 DEF Init, ElsewhereTyped
  <2>3. ASSUME NEW n \in Nodes, NEW c \in Conns,
               bound = [m \in Nodes |-> IF m = n THEN c ELSE None],
               generation = [m \in Nodes |-> IF m = n THEN 1 ELSE 0],
               owner = [d \in Conns |-> IF d = c THEN n ELSE None]
        PROVE  ElsewhereTyped
    BY <2>1, <2>3 DEF Init, ElsewhereTyped
  <2> QED BY <2>2, <2>3 DEF Init
<1> QED BY <1>1, <1>2, <1>3, TypedParts

\* Steps outside the mailbox keep the types.
LEMMA OutsideTyped ==
  ASSUME Typed, NEW t \in Threads, Outside(t)
  PROVE  Typed'
<1>1. MailboxTyped
  BY TypedParts
<1>2. UNCHANGED <<queue, holder, subscribed, receiver, woken, unread, latest>>
  BY DEF Outside, mailbox
<1>3. \A u \in Threads : Take(u, "wake")' <=> Take(u, "wake")
  BY DEF Outside, Take
<1>4. MailboxTyped'
  BY <1>1, <1>2, <1>3 DEF MailboxTyped
<1>5. TodoTyped' /\ ElsewhereTyped'
  BY DEF Outside, ElsewhereTyped
<1> QED BY <1>4, <1>5, TypedParts, PTL

\* A dispatch without a push keeps the types.
LEMMA SkipsTyped ==
  ASSUME Typed, NEW t \in Threads, Skips(t)
  PROVE  Typed'
<1>1. MailboxTyped /\ ElsewhereTyped
  BY TypedParts
<1>2. UNCHANGED <<queue, holder, unread, subscribed, receiver, woken>> /\ UNCHANGED Elsewhere
  BY DEF Skips
<1>3. \A u \in Threads : Take(u, "wake")' <=> Take(u, "wake")
  BY DEF Skips, Leaves, Take
<1>4. /\ latest' \in [Keys -> Sound \union {None}]
      /\ \A k \in Keys : latest'[k] # None => Key(latest'[k]) = k
  BY <1>1 DEF Skips, MailboxTyped, Sound
<1>5. MailboxTyped'
  BY <1>1, <1>2, <1>3, <1>4 DEF MailboxTyped
<1>6. TodoTyped' /\ ElsewhereTyped'
  BY <1>1, <1>2 DEF Skips, Leaves, ElsewhereTyped, Elsewhere
<1> QED BY <1>5, <1>6, TypedParts, PTL

\* A push keeps the types.
LEMMA PushesTyped ==
  ASSUME Typed, NEW t \in Threads, Pushes(t)
  PROVE  Typed'
<1>1. MailboxTyped /\ ElsewhereTyped
  BY TypedParts
<1>2. PICK e \in Sound : e = Ev(t)
  BY DEF Pushes
<1>3. queue' \in Seq(Sound)
  BY <1>1, <1>2, PushedEvents DEF Pushes, MailboxTyped
<1>4. unread' \in Seq(Sound)
  BY <1>1, <1>2, AppendProperties DEF Pushes, MailboxTyped
<1>5. latest' = [k \in Keys |-> IF k = Key(e) THEN e
                               ELSE IF latest[k] = Victim(Coalesced(queue, e)) THEN None
                               ELSE latest[k]]
  BY <1>2 DEF Pushes
<1>6. latest' \in [Keys -> Sound \union {None}]
  BY <1>1, <1>5 DEF MailboxTyped
<1>7. \A k \in Keys : latest'[k] # None => Key(latest'[k]) = k
  BY <1>1, <1>5 DEF MailboxTyped
<1>8. holder = None /\ holder' = t /\ None \notin Threads
  BY NodeEventsAssumption DEF Pushes, NodeEventsAssumption
<1>9. \A u \in Threads : ~Take(u, "wake")
  BY <1>1, <1>8 DEF MailboxTyped
<1>10. \A u \in Threads : holder' = u <=> Take(u, "wake")'
  BY <1>8, <1>9 DEF Pushes, Leaves, Take
<1>11. UNCHANGED <<subscribed, receiver, woken>> /\ UNCHANGED Elsewhere
  BY DEF Pushes
<1>12. MailboxTyped'
  BY <1>1, <1>3, <1>4, <1>6, <1>7, <1>8, <1>10, <1>11 DEF MailboxTyped
<1>13. TodoTyped' /\ ElsewhereTyped'
  BY <1>1, <1>11 DEF Pushes, Leaves, ElsewhereTyped, Elsewhere
<1> QED BY <1>12, <1>13, TypedParts, PTL

\* A wake keeps the types.
LEMMA WakesTyped ==
  ASSUME Typed, NEW t \in Threads, Wakes(t)
  PROVE  Typed'
<1>1. MailboxTyped /\ ElsewhereTyped
  BY TypedParts
<1>2. holder = t /\ holder' = None /\ None \notin Threads
  BY <1>1, NodeEventsAssumption DEF Wakes, MailboxTyped, NodeEventsAssumption
<1>3. \A u \in Threads \ {t} : ~Take(u, "wake")
  BY <1>1, <1>2 DEF MailboxTyped
<1>4. \A u \in Threads : ~Take(u, "wake")'
  BY <1>3 DEF Wakes, Leaves, Take
<1>5. UNCHANGED <<queue, subscribed, receiver, unread, latest>> /\ UNCHANGED Elsewhere /\ woken' = TRUE
  BY DEF Wakes
<1>6. MailboxTyped'
  BY <1>1, <1>2, <1>4, <1>5 DEF MailboxTyped
<1>7. TodoTyped' /\ ElsewhereTyped'
  BY <1>1, <1>5 DEF Wakes, Leaves, ElsewhereTyped, Elsewhere
<1> QED BY <1>6, <1>7, TypedParts, PTL

\* So do the steps of the consumer that leave the queue alone, and stuttering.
LEMMA ConsumerTyped ==
  ASSUME Typed, Unsubscribe \/ ReceiverWakes \/ TryRecvEmpty \/ UNCHANGED vars
  PROVE  Typed'
<1>1. TodoTyped /\ MailboxTyped /\ ElsewhereTyped
  BY TypedParts
<1>2. /\ UNCHANGED <<todo, queue, holder, unread, latest>> /\ UNCHANGED Elsewhere
      /\ subscribed' \in BOOLEAN /\ receiver' \in {"asleep", "draining"} /\ woken' \in BOOLEAN
  BY <1>1 DEF Unsubscribe, ReceiverWakes, TryRecvEmpty, vars, Elsewhere, MailboxTyped
<1>3. \A u \in Threads : Take(u, "wake")' <=> Take(u, "wake")
  BY <1>2 DEF Take
<1>4. MailboxTyped'
  BY <1>1, <1>2, <1>3 DEF MailboxTyped
<1>5. TodoTyped' /\ ElsewhereTyped'
  BY <1>1, <1>2 DEF TodoTyped, ElsewhereTyped, Elsewhere
<1> QED BY <1>4, <1>5, TypedParts, PTL

\* What a receive does to the queue and to what is unread.
LEMMA TryRecvFacts ==
  ASSUME Typed, Keeps(queue, unread), TryRecv
  PROVE  /\ queue' \in Seq(Sound) /\ Loses(queue, queue', 1) /\ Head(queue) = queue[1]
         /\ unread' \in Seq(Sound) /\ Keeps(queue', unread')
<1>1. queue \in Seq(Sound) /\ unread \in Seq(Sound) /\ queue # <<>> /\ queue' = Tail(queue)
  BY DEF Typed, TryRecv
<1>2. Tail(queue) \in Seq(Sound) /\ Loses(queue, Tail(queue), 1) /\ Head(queue) = queue[1]
  BY <1>1, TailLoses
<1>3. CASE Reliable(queue[1])
  <2>1. unread' = Tail(unread)
    BY <1>2, <1>3 DEF TryRecv
  <2>2. unread # <<>> /\ Keeps(Tail(queue), Tail(unread))
    BY <1>1, <1>2, <1>3, LossOfHeadKeeps
  <2>3. Tail(unread) \in Seq(Sound)
    BY <1>1, <2>2, HeadTailProperties
  <2> QED BY <1>1, <1>2, <2>1, <2>2, <2>3
<1>4. CASE ~Reliable(queue[1])
  <2>1. unread' = unread
    BY <1>2, <1>4 DEF TryRecv
  <2>2. Level(queue[1])
    BY <1>4 DEF Level
  <2>3. Keeps(Tail(queue), unread)
    BY <1>1, <1>2, <2>2, LossOfLevelKeeps
  <2> QED BY <1>1, <1>2, <2>1, <2>3
<1> QED BY <1>3, <1>4

\* A receive keeps the types.
LEMMA TryRecvTyped ==
  ASSUME Typed, Keeps(queue, unread), TryRecv
  PROVE  Typed'
<1>1. TodoTyped /\ MailboxTyped /\ ElsewhereTyped
  BY TypedParts
<1>2. queue' \in Seq(Sound) /\ unread' \in Seq(Sound)
  BY TryRecvFacts
<1>3. UNCHANGED <<calls, todo, bound, generation, sequence, owner, holder, subscribed, receiver, woken>>
  BY DEF TryRecv
<1>4. latest' = [k \in Keys |-> IF latest[k] = Head(queue) THEN None ELSE latest[k]]
  BY DEF TryRecv
<1>5. /\ latest' \in [Keys -> Sound \union {None}]
      /\ \A k \in Keys : latest'[k] # None => Key(latest'[k]) = k
  BY <1>1, <1>4 DEF MailboxTyped
<1>6. \A u \in Threads : Take(u, "wake")' <=> Take(u, "wake")
  BY <1>3 DEF Take
<1>7. MailboxTyped'
  BY <1>1, <1>2, <1>3, <1>5, <1>6 DEF MailboxTyped
<1>8. TodoTyped' /\ ElsewhereTyped'
  BY <1>1, <1>3 DEF TodoTyped, ElsewhereTyped
<1> QED BY <1>7, <1>8, TypedParts, PTL

-----------------------------------------------------------------------------
(* The mailbox: its bounds, the reliable events and the wake-up *)

\* What the queue promises, and the types.
MailboxInv ==
    /\ Typed
    /\ Keeps(queue, unread)
    /\ OnePerKey(queue)
    /\ Bounded(queue)
    /\ NoLostWake

\* Nothing is promised about an empty queue.
LEMMA MailboxInit == ASSUME Init PROVE MailboxInv
<1>1. queue = <<>> /\ unread = <<>> /\ Len(queue) = 0 /\ DOMAIN queue = {}
  BY DEF Init
<1>2. ReliableUpTo(queue, Len(queue)) = 0
  <2>1. {j \in DOMAIN queue : j <= Len(queue) /\ Reliable(queue[j])} = {}
    BY <1>1
  <2> QED BY <2>1, FS_EmptySet DEF ReliableUpTo
<1>3. Keeps(queue, unread)
  BY <1>1, <1>2 DEF Keeps
<1>4. OnePerKey(queue) /\ Bounded(queue) /\ NoLostWake
  BY <1>1, NodeEventsAssumption DEF OnePerKey, Bounded, NoLostWake, NodeEventsAssumption
<1> QED BY <1>3, <1>4, TypedInit DEF MailboxInv

\* Every step keeps it.
LEMMA MailboxNext == ASSUME MailboxInv, [Next]_vars PROVE MailboxInv'
<1> USE DEF MailboxInv
<1>1. ASSUME Typed', UNCHANGED <<queue, unread>>, NoLostWake' PROVE MailboxInv'
  BY <1>1
<1>2. ASSUME NEW t \in Threads, Plans(t) \/ Builds(t) PROVE MailboxInv'
  <2>1. Outside(t)
    BY <1>2 DEF Plans, Builds
  <2>2. UNCHANGED <<queue, unread, holder, receiver, woken>>
    BY <2>1 DEF Outside, mailbox
  <2> QED BY <1>1, <2>1, <2>2, OutsideTyped DEF NoLostWake
<1>3. ASSUME NEW t \in Threads, Skips(t) PROVE MailboxInv'
  <2>1. UNCHANGED <<queue, unread, holder, receiver, woken>>
    BY <1>3 DEF Skips
  <2> QED BY <1>1, <1>3, <2>1, SkipsTyped DEF NoLostWake
<1>4. ASSUME NEW t \in Threads, Pushes(t) PROVE MailboxInv'
  <2>1. Typed' /\ queue \in Seq(Sound) /\ unread \in Seq(Sound)
    BY <1>4, PushesTyped DEF Typed
  <2>2. PICK e \in Sound : e = Ev(t)
    BY <1>4 DEF Pushes
  <2>3. queue' = Pushed(queue, e) /\ unread' = (IF Reliable(e) THEN Append(unread, e) ELSE unread)
    BY <1>4, <2>2 DEF Pushes
  <2>4. Keeps(queue', unread')
    BY <2>1, <2>3, PushedKeeps
  <2>5. OnePerKey(queue') /\ Bounded(queue')
    BY <2>1, <2>3, PushedBounds
  <2>6. NoLostWake'
    BY <1>4, NodeEventsAssumption DEF Pushes, NoLostWake, NodeEventsAssumption
  <2> QED BY <2>1, <2>4, <2>5, <2>6
<1>5. ASSUME NEW t \in Threads, Wakes(t) PROVE MailboxInv'
  <2>1. UNCHANGED <<queue, unread>> /\ woken' = TRUE
    BY <1>5 DEF Wakes
  <2> QED BY <1>1, <1>5, <2>1, WakesTyped DEF NoLostWake
<1>6. CASE Unsubscribe \/ ReceiverWakes \/ TryRecvEmpty \/ UNCHANGED vars
  <2>1. UNCHANGED <<queue, unread>>
    BY <1>6 DEF Unsubscribe, ReceiverWakes, TryRecvEmpty, vars
  <2>2. NoLostWake'
    BY <1>6 DEF Unsubscribe, ReceiverWakes, TryRecvEmpty, vars, NoLostWake
  <2> QED BY <1>1, <1>6, <2>1, <2>2, ConsumerTyped
<1>7. CASE TryRecv
  <2>1. queue \in Seq(Sound) /\ queue' \in Seq(Sound) /\ Loses(queue, queue', 1) /\ Keeps(queue', unread')
    BY <1>7, TryRecvFacts DEF Typed
  <2>2. OnePerKey(queue') /\ Bounded(queue')
    BY <2>1, LossOnePerKey, LossBounded
  <2>3. NoLostWake'
    BY <1>7 DEF TryRecv, NoLostWake
  <2> QED BY <1>7, <2>1, <2>2, <2>3, TryRecvTyped
<1> QED BY <1>2, <1>3, <1>4, <1>5, <1>6, <1>7, StepKinds

-----------------------------------------------------------------------------
(* The last word *)

\* The thread t is about to dispatch e.
Pending(t, e) == Take(t, "dispatch") /\ Ev(t) = e

\* A numbered event, in the queue or on its way, has a number its counter has reached.
\* On its way it is neither in the queue nor on its way in another thread.
Fresh ==
    \A e \in Sound : Numbered(e) =>
        /\ Contains(queue, e) \/ (\E t \in Threads : Pending(t, e)) => e.gen <= Counter(e)
        /\ \A t \in Threads : Pending(t, e) =>
              ~Contains(queue, e) /\ \A u \in Threads : Pending(u, e) => u = t

\* LatestSurvives, with what it rests on.
LatestInv == MailboxInv /\ Fresh /\ Distinct(queue) /\ LatestSurvives

\* Counters only grow.
LEMMA CounterGrows ==
  ASSUME Typed, NEW t \in Threads, Outside(t), NEW e \in Sound, Numbered(e)
  PROVE  Counter(e) \in Nat /\ Counter(e)' \in Nat /\ Counter(e) <= Counter(e)' /\ e.gen \in Nat
<1>1. e.about \in Nodes /\ e.gen \in Nat
  BY DEF Sound, Numbered, Key, Keys, Events
<1>2. /\ generation[e.about] \in Nat /\ generation'[e.about] \in Nat
      /\ generation[e.about] <= generation'[e.about]
      /\ sequence[e.about] \in Nat /\ sequence'[e.about] \in Nat
      /\ sequence[e.about] <= sequence'[e.about]
  BY <1>1, TypedFacts DEF Outside
<1> QED BY <1>1, <1>2 DEF Counter

\* A counter that no step of the mailbox touches.
LEMMA CounterStays ==
  ASSUME NEW e, UNCHANGED <<generation, sequence>>
  PROVE  Counter(e)' = Counter(e)
BY DEF Counter

\* A step outside the mailbox that builds no event keeps Fresh.
LEMMA PlansFresh ==
  ASSUME Typed, Fresh, NEW t \in Threads, Plans(t)
  PROVE  Fresh'
<1>1. queue' = queue /\ Outside(t)
  BY DEF Plans, Outside, mailbox
<1>2. \A u \in Threads, e \in Sound : Pending(u, e)' => Pending(u, e)
  BY DEF Plans, Outside, Pending, Take, Ev
<1>3. ASSUME NEW e \in Sound, Numbered(e), Contains(queue, e)' \/ (\E u \in Threads : Pending(u, e)')
      PROVE  e.gen <= Counter(e)'
  <2>1. e.gen <= Counter(e)
    BY <1>1, <1>2, <1>3 DEF Fresh, Contains
  <2> QED BY <1>1, <1>3, <2>1, CounterGrows
<1>4. \A e \in Sound : Contains(queue, e)' <=> Contains(queue, e)
  BY <1>1 DEF Contains
<1> QED BY <1>2, <1>3, <1>4 DEF Fresh

\* A new event has a number that was not given before.
LEMMA BuildsFresh ==
  ASSUME Typed, Fresh, NEW t \in Threads, Builds(t)
  PROVE  Fresh'
<1>1. queue' = queue /\ Outside(t)
  BY DEF Builds, Outside, mailbox
<1>2. PICK n \in Sound : Ev(t)' = n /\ (Numbered(n) => Counter(n) < n.gen /\ n.gen <= Counter(n)')
  BY DEF Builds
<1>3. \A u \in Threads \ {t}, e \in Sound : Pending(u, e)' <=> Pending(u, e)
  BY <1>1 DEF Outside, Pending, Take, Ev
<1>4. \A e \in Sound : Pending(t, e)' => e = n
  BY <1>2 DEF Pending
<1>5. \A e \in Sound : Contains(queue, e)' <=> Contains(queue, e)
  BY <1>1 DEF Contains
<1>6. Numbered(n) => ~Contains(queue, n) /\ \A u \in Threads : ~Pending(u, n)
  <2> SUFFICES ASSUME Numbered(n), Contains(queue, n) \/ \E u \in Threads : Pending(u, n) PROVE FALSE
    OBVIOUS
  <2>1. n.gen <= Counter(n)
    BY DEF Fresh
  <2>2. Counter(n) \in Nat /\ n.gen \in Nat
    BY <1>1, CounterGrows
  <2> QED BY <1>2, <2>1, <2>2
<1>7. ASSUME NEW e \in Sound, Numbered(e), Contains(queue, e)' \/ (\E u \in Threads : Pending(u, e)')
      PROVE  e.gen <= Counter(e)'
  <2>1. CASE e = n
    BY <1>2, <1>7, <2>1
  <2>2. CASE e # n
    <3>1. e.gen <= Counter(e)
      BY <1>3, <1>4, <1>5, <1>7, <2>2 DEF Fresh
    <3> QED BY <1>1, <1>7, <3>1, CounterGrows
  <2> QED BY <2>1, <2>2
<1>8. ASSUME NEW e \in Sound, Numbered(e), NEW u \in Threads, Pending(u, e)'
      PROVE  ~Contains(queue, e)' /\ \A v \in Threads : Pending(v, e)' => v = u
  <2>1. CASE e = n
    BY <1>3, <1>5, <1>6, <1>8, <2>1
  <2>2. CASE e # n
    BY <1>3, <1>4, <1>5, <1>8, <2>2 DEF Fresh
  <2> QED BY <2>1, <2>2
<1> QED BY <1>7, <1>8 DEF Fresh

\* A step of the mailbox that adds at most the event it dispatches.
LEMMA InsideFresh ==
  ASSUME Fresh, UNCHANGED <<generation, sequence>>,
         \A u \in Threads, e \in Sound : Pending(u, e)' => Pending(u, e),
         \A e \in Sound : Numbered(e) /\ Contains(queue, e)' =>
            Contains(queue, e) \/ \E t \in Threads : Pending(t, e) /\ \A f \in Sound : ~Pending(t, f)'
  PROVE  Fresh'
<1>1. \A e \in Sound : Counter(e)' = Counter(e)
  BY CounterStays
<1>2. ASSUME NEW e \in Sound, Numbered(e), Contains(queue, e)' \/ (\E u \in Threads : Pending(u, e)')
      PROVE  e.gen <= Counter(e)'
  BY <1>1, <1>2 DEF Fresh
<1>3. ASSUME NEW e \in Sound, Numbered(e), NEW u \in Threads, Pending(u, e)'
      PROVE  ~Contains(queue, e)' /\ \A v \in Threads : Pending(v, e)' => v = u
  <2>1. Pending(u, e) /\ ~Contains(queue, e) /\ \A v \in Threads : Pending(v, e) => v = u
    BY <1>3 DEF Fresh
  <2> QED BY <1>3, <2>1
<1> QED BY <1>2, <1>3 DEF Fresh

\* Fresh, for every step.
LEMMA FreshNext ==
  ASSUME MailboxInv, Fresh, [Next]_vars
  PROVE  Fresh'
<1>0. Typed /\ queue \in Seq(Sound) /\ DOMAIN queue = 1..Len(queue)
  BY LenProperties DEF MailboxInv, Typed
<1>1. ASSUME NEW t \in Threads, Plans(t) \/ Builds(t) PROVE Fresh'
  BY <1>0, <1>1, PlansFresh, BuildsFresh
<1>2. ASSUME NEW t \in Threads, Skips(t) \/ Wakes(t) PROVE Fresh'
  <2>1. queue' = queue /\ UNCHANGED <<generation, sequence>> /\ Leaves(t)
    BY <1>2 DEF Skips, Wakes, Elsewhere
  <2>2. \A u \in Threads, e \in Sound : Pending(u, e)' => Pending(u, e)
    BY <2>1 DEF Leaves, Pending, Take, Ev
  <2>3. \A e \in Sound : Contains(queue, e)' => Contains(queue, e)
    BY <2>1 DEF Contains
  <2> QED BY <2>1, <2>2, <2>3, InsideFresh
<1>3. ASSUME NEW t \in Threads, Pushes(t) PROVE Fresh'
  <2>1. UNCHANGED <<generation, sequence>> /\ Leaves(t)
    BY <1>3 DEF Pushes, Elsewhere
  <2>2. PICK n \in Sound : n = Ev(t) /\ queue' = Pushed(queue, n) /\ Pending(t, n)
    BY <1>3 DEF Pushes, Pending
  <2>3. \A u \in Threads, e \in Sound : Pending(u, e)' => Pending(u, e)
    BY <2>1 DEF Leaves, Pending, Take, Ev
  <2>4. \A e \in Sound : ~Pending(t, e)'
    BY <2>1 DEF Leaves, Pending
  <2>5. queue' \in Seq(Sound) /\ \A i \in DOMAIN queue' : queue'[i] = n \/ \E j \in DOMAIN queue : queue'[i] = queue[j]
    <3>1. PICK q \in Seq(Sound) : q = queue
      BY <1>0
    <3>2. PICK r : r = Pushed(q, n)
      OBVIOUS
    <3>3. r \in Seq(Sound) /\ \A i \in DOMAIN r : r[i] = n \/ \E j \in DOMAIN q : r[i] = q[j]
      BY <3>2, PushedEvents
    <3> QED BY <2>2, <3>1, <3>2, <3>3
  <2>6. DOMAIN queue' = 1..Len(queue')
    BY <2>5, LenProperties
  <2>7. \A e \in Sound : Contains(queue, e)' => Contains(queue, e) \/ e = n
    BY <1>0, <2>5, <2>6 DEF Contains
  <2> QED BY <2>1, <2>2, <2>3, <2>4, <2>7, InsideFresh
<1>4. CASE Unsubscribe \/ ReceiverWakes \/ TryRecvEmpty \/ TryRecv \/ UNCHANGED vars
  <2>1. UNCHANGED <<generation, sequence, todo>>
    BY <1>4 DEF Unsubscribe, ReceiverWakes, TryRecvEmpty, TryRecv, vars
  <2>2. \A u \in Threads, e \in Sound : Pending(u, e)' => Pending(u, e)
    BY <2>1 DEF Pending, Take, Ev
  <2>3. \A e \in Sound : Contains(queue, e)' => Contains(queue, e)
    <3>1. CASE TryRecv
      <4>1. queue' \in Seq(Sound) /\ Loses(queue, queue', 1)
        BY <1>0, <3>1, TryRecvFacts DEF MailboxInv
      <4>2. \A i \in DOMAIN queue' : queue'[i] = queue[Skip(1, i)] /\ Skip(1, i) \in DOMAIN queue
        BY <1>0, <4>1, LosesPositions
      <4>3. DOMAIN queue' = 1..Len(queue')
        BY <4>1, LenProperties
      <4> QED BY <1>0, <4>2, <4>3 DEF Contains
    <3>2. CASE ~TryRecv
      <4>1. queue' = queue
        BY <1>4, <3>2 DEF Unsubscribe, ReceiverWakes, TryRecvEmpty, vars
      <4> QED BY <4>1 DEF Contains
    <3> QED BY <3>1, <3>2
  <2> QED BY <2>1, <2>2, <2>3, InsideFresh
<1> QED BY <1>0, <1>1, <1>2, <1>3, <1>4, StepKinds

\* An sftp or terminal event in the queue is the only one of its key.
LEMMA OnlyOneOfItsKey ==
  ASSUME MailboxInv, NEW e \in Sound, Contains(queue, e), e.kind \notin {"status", "state", "shared"}
  PROVE  LastOf(queue, Key(e), e)
<1>1. DOMAIN queue = 1..Len(queue)
  BY LenProperties DEF MailboxInv, Typed
<1>2. PICK i \in DOMAIN queue : queue[i] = e
  BY <1>1 DEF Contains
<1>3. ASSUME NEW j \in DOMAIN queue, Key(queue[j]) = Key(e) PROVE j = i
  <2>1. queue[j].kind = e.kind
    BY <1>3 DEF Key
  <2>2. Level(queue[j]) /\ Level(queue[i])
    BY <1>2, <2>1 DEF Level, Reliable
  <2> QED BY <1>2, <1>3, <2>2 DEF MailboxInv, OnePerKey
<1>4. \A j \in DOMAIN queue : j > i => Key(queue[j]) # Key(e)
  BY <1>1, <1>3
<1> QED BY <1>2, <1>4 DEF LastOf

\* No event is in the queue twice, after any step.
LEMMA DistinctNext ==
  ASSUME MailboxInv, Distinct(queue), [Next]_vars
  PROVE  Distinct(queue')
<1>0. Typed /\ queue \in Seq(Sound)
  BY DEF MailboxInv, Typed
<1>1. ASSUME NEW t \in Threads, Pushes(t) PROVE Distinct(queue')
  <2>1. PICK e \in Sound : e = Ev(t) /\ queue' = Pushed(queue, e) /\ ~Contains(queue, e)
    BY <1>1 DEF Pushes
  <2> QED BY <1>0, <2>1, PushedSilentDistinct
<1>2. CASE TryRecv
  <2>1. queue' \in Seq(Sound) /\ Loses(queue, queue', 1)
    BY <1>0, <1>2, TryRecvFacts DEF MailboxInv
  <2> QED BY <1>0, <2>1, LossSilentDistinct
<1>3. ASSUME UNCHANGED queue PROVE Distinct(queue')
  BY <1>3
<1>4. ASSUME NEW t \in Threads, Plans(t) \/ Builds(t) \/ Skips(t) \/ Wakes(t) PROVE UNCHANGED queue
  BY <1>4 DEF Plans, Builds, Skips, Wakes, Outside, mailbox
<1>5. ASSUME Unsubscribe \/ ReceiverWakes \/ TryRecvEmpty \/ UNCHANGED vars PROVE UNCHANGED queue
  BY <1>5 DEF Unsubscribe, ReceiverWakes, TryRecvEmpty, vars
<1> QED BY <1>0, <1>1, <1>2, <1>3, <1>4, <1>5, StepKinds

\* What LatestSurvives says of the key k.
LastWord(k) ==
    \/ k \in evicted
    \/ latest[k] = None /\ Silent(queue, k)
    \/ LastOf(queue, k, latest[k])

\* It is that for every key but those of status events.
LEMMA LatestIsLastWord == LatestSurvives <=> \A k \in Keys : k[2] # "status" => LastWord(k)
BY DEF LatestSurvives, LastWord, Silent, LastOf

\* An event that is the last of its key is there.
LEMMA LastOfIsEvent ==
  ASSUME NEW q \in Seq(Sound), NEW k, NEW x, LastOf(q, k, x)
  PROVE  x # None
<1>1. \A i \in DOMAIN q : q[i] \in Events
  BY LenProperties DEF Sound
<1> QED BY <1>1, NoneIsNoEvent DEF LastOf, NoneIsNoEvent

\* LatestSurvives, for every step.
LEMMA LatestNext ==
  ASSUME LatestInv, [Next]_vars
  PROVE  LatestSurvives'
<1>0. /\ MailboxInv /\ Fresh /\ Typed /\ queue \in Seq(Sound) /\ Distinct(queue)
      /\ latest \in [Keys -> Sound \union {None}]
      /\ \A k \in Keys : latest[k] # None => Key(latest[k]) = k
      /\ \A k \in Keys : k[2] # "status" => LastWord(k)
  BY LatestIsLastWord DEF LatestInv, MailboxInv, Typed
<1>1. ASSUME \A k \in Keys : k[2] # "status" => LastWord(k)' PROVE LatestSurvives'
  BY <1>1 DEF LatestSurvives, LastWord, Silent, LastOf
<1>2. ASSUME UNCHANGED <<queue, latest, evicted>> PROVE LatestSurvives'
  <2>1. \A k \in Keys : LastWord(k) => LastWord(k)'
    BY <1>2 DEF LastWord
  <2> QED BY <1>0, <1>1, <2>1
<1>3. ASSUME NEW t \in Threads, Skips(t), ~UNCHANGED <<latest, evicted>> PROVE LatestSurvives'
  <2>1. PICK e \in Sound : e = Ev(t) /\ Pending(t, e)
    BY <1>3 DEF Skips, Pending
  <2>2. /\ Contains(queue, e) /\ latest' = [latest EXCEPT ![Key(e)] = e]
        /\ evicted' = evicted \ {Key(e)} /\ queue' = queue
    BY <1>3, <2>1 DEF Skips
  <2>3. ~Numbered(e)
    BY <1>0, <2>1, <2>2 DEF Fresh
  <2>4. Key(e)[2] # "status" => LastOf(queue, Key(e), e)
    <3>1. Key(e)[2] = e.kind
      BY DEF Key
    <3>2. e.kind \notin {"state", "shared"}
      BY <2>3 DEF Numbered
    <3> QED BY <1>0, <2>2, <3>1, <3>2, OnlyOneOfItsKey
  <2>5. ASSUME NEW k \in Keys, k[2] # "status" PROVE LastWord(k)'
    <3>1. CASE k = Key(e)
      <4>1. latest'[k] = e
        BY <1>0, <2>2, <3>1
      <4> QED BY <2>2, <2>4, <2>5, <3>1, <4>1 DEF LastWord
    <3>2. CASE k # Key(e)
      <4>1. latest'[k] = latest[k] /\ (k \in evicted => k \in evicted')
        BY <1>0, <2>2, <3>2
      <4>2. LastWord(k)
        BY <1>0, <2>5
      <4> QED BY <2>2, <4>1, <4>2 DEF LastWord
    <3> QED BY <3>1, <3>2
  <2> QED BY <1>1, <2>5
<1>4. ASSUME NEW t \in Threads, Pushes(t) PROVE LatestSurvives'
  <2>1. PICK e \in Sound : e = Ev(t)
    BY <1>4 DEF Pushes
  <2>2. queue' = Pushed(queue, e)
    BY <1>4, <2>1 DEF Pushes
  <2>3. \A k \in Keys : latest'[k] = IF k = Key(e) THEN e
                                     ELSE IF latest[k] = Victim(Coalesced(queue, e)) THEN None
                                     ELSE latest[k]
    BY <1>4, <2>1 DEF Pushes
  <2>4. \A k \in Keys : k # Key(e) =>
          (k \in evicted' <=> k \in evicted \/ (latest[k] # None /\ latest[k] = Victim(Coalesced(queue, e))))
    BY <1>4, <2>1 DEF Pushes
  <2>5. ASSUME NEW k \in Keys, k[2] # "status" PROVE LastWord(k)'
    <3>1. CASE k = Key(e)
      <4>1. LastOf(queue', k, latest'[k])
        BY <1>0, <2>2, <2>3, <3>1, PushedLastOf
      <4> QED BY <4>1 DEF LastWord
    <3>2. CASE k # Key(e)
      <4>1. CASE k \in evicted
        BY <2>4, <3>2, <4>1 DEF LastWord
      <4>2. CASE latest[k] = None /\ Silent(queue, k)
        <5>1. latest'[k] = None
          BY <2>3, <3>2, <4>2
        <5>2. Silent(queue', k)
          BY <1>0, <2>2, <3>2, <4>2, PushedSilentDistinct
        <5> QED BY <5>1, <5>2 DEF LastWord
      <4>3. CASE LastOf(queue, k, latest[k])
        <5>1. latest[k] # None /\ Key(latest[k]) = k
          BY <1>0, <4>3, LastOfIsEvent
        <5>2. CASE latest[k] = Victim(Coalesced(queue, e))
          BY <2>4, <3>2, <5>1, <5>2 DEF LastWord
        <5>3. CASE latest[k] # Victim(Coalesced(queue, e))
          <6>1. latest'[k] = latest[k]
            BY <2>3, <3>2, <5>3
          <6>2. LastOf(queue', k, latest[k])
            BY <1>0, <2>2, <3>2, <4>3, <5>1, <5>3, PushedLastOf
          <6> QED BY <6>1, <6>2 DEF LastWord
        <5> QED BY <5>2, <5>3
      <4> QED BY <1>0, <2>5, <4>1, <4>2, <4>3 DEF LastWord
    <3> QED BY <3>1, <3>2
  <2> QED BY <1>1, <2>5
<1>5. CASE TryRecv
  <2>1. queue' \in Seq(Sound) /\ Loses(queue, queue', 1) /\ Head(queue) = queue[1]
    BY <1>0, <1>5, TryRecvFacts DEF MailboxInv
  <2>2. /\ \A k \in Keys : latest'[k] = IF latest[k] = queue[1] THEN None ELSE latest[k]
        /\ evicted' = evicted
    BY <1>5, <2>1 DEF TryRecv
  <2>3. ASSUME NEW k \in Keys, k[2] # "status" PROVE LastWord(k)'
    <3>1. CASE k \in evicted
      BY <2>2, <3>1 DEF LastWord
    <3>2. CASE latest[k] = None /\ Silent(queue, k)
      <4>1. latest'[k] = None
        BY <2>2, <3>2
      <4>2. Silent(queue', k)
        BY <1>0, <2>1, <3>2, LossSilentDistinct
      <4> QED BY <4>1, <4>2 DEF LastWord
    <3>3. CASE LastOf(queue, k, latest[k]) /\ latest[k] = queue[1]
      <4>1. Silent(queue', k)
        BY <1>0, <2>1, <3>3, HeadIsOnly
      <4>2. latest'[k] = None
        BY <2>2, <3>3
      <4> QED BY <4>1, <4>2 DEF LastWord
    <3>4. CASE LastOf(queue, k, latest[k]) /\ latest[k] # queue[1]
      <4>1. LastOf(queue', k, latest[k])
        BY <1>0, <2>1, <3>4, LossLastOf
      <4>2. latest'[k] = latest[k]
        BY <2>2, <3>4
      <4> QED BY <4>1, <4>2 DEF LastWord
    <3> QED BY <1>0, <2>3, <3>1, <3>2, <3>3, <3>4 DEF LastWord
  <2> QED BY <1>1, <2>3
<1>6. ASSUME NEW t \in Threads, Plans(t) \/ Builds(t) \/ (Skips(t) /\ UNCHANGED <<latest, evicted>>) \/ Wakes(t)
      PROVE  LatestSurvives'
  <2>1. UNCHANGED <<queue, latest, evicted>>
    <3>1. CASE Plans(t) \/ Builds(t)
      BY <3>1 DEF Plans, Builds, Outside, mailbox
    <3>2. CASE (Skips(t) /\ UNCHANGED <<latest, evicted>>) \/ Wakes(t)
      BY <3>2 DEF Skips, Wakes
    <3> QED BY <1>6, <3>1, <3>2
  <2> QED BY <1>2, <2>1
<1>7. CASE Unsubscribe \/ ReceiverWakes \/ TryRecvEmpty \/ UNCHANGED vars
  <2>1. UNCHANGED <<queue, latest, evicted>>
    BY <1>7 DEF Unsubscribe, ReceiverWakes, TryRecvEmpty, vars
  <2> QED BY <1>2, <2>1
<1> QED BY <1>0, <1>3, <1>4, <1>5, <1>6, <1>7, StepKinds

\* Nothing is on its way and nothing was said at the start.
LEMMA LatestInit == ASSUME Init PROVE LatestInv
<1>1. queue = <<>> /\ Len(queue) = 0 /\ latest = [k \in Keys |-> None]
  BY DEF Init
<1>2. \A e : ~Contains(queue, e)
  BY <1>1 DEF Contains
<1>3. \A t \in Threads, e \in Sound : ~Pending(t, e)
  BY DEF Init, Pending, Take
<1>4. Fresh
  BY <1>2, <1>3 DEF Fresh
<1>5. LatestSurvives /\ Distinct(queue)
  <2>1. DOMAIN queue = {}
    BY <1>1
  <2> QED BY <1>1, <2>1 DEF LatestSurvives, Distinct
<1> QED BY <1>4, <1>5, MailboxInit DEF LatestInv

-----------------------------------------------------------------------------
(* Theorems *)

\* The inductive invariant holds throughout.
LEMMA InvariantHolds == Spec => []LatestInv
<1>1. Init => LatestInv
  BY LatestInit
<1>2. LatestInv /\ [Next]_vars => LatestInv'
  BY MailboxNext, FreshNext, DistinctNext, LatestNext DEF LatestInv
<1> QED BY <1>1, <1>2, PTL DEF Spec

\* Whatever threads, nodes and connections there are, every variable keeps its type and
\* mailbox_listeners is held exactly by the thread between its push and its wake.
THEOREM TypeCorrect == Spec => []TypeOK
<1>1. LatestInv => TypeOK
  BY DEF LatestInv, MailboxInv, Typed
<1> QED BY <1>1, InvariantHolds, PTL

\* dispatch loses, reorders and duplicates no error, disconnect or revocation, but for one
\* equal to an event still in the queue, for any capacity and any number of events:
\* merging and evicting touch level events only.
THEOREM ReliableEventsAreKept == Spec => []ReliableKept
<1>1. LatestInv => ReliableKept
  BY DEF LatestInv, MailboxInv, Keeps, ReliableKept
<1> QED BY <1>1, InvariantHolds, PTL

\* The mailbox exceeds its capacity only by events that must not be dropped, and never
\* holds two level events of a key.
THEOREM MailboxStaysBounded == Spec => []MailboxBounded
<1>1. LatestInv => MailboxBounded
  BY DEF LatestInv, MailboxInv, OnePerKey, Bounded, MailboxBounded
<1> QED BY <1>1, InvariantHolds, PTL

\* The last event dispatched of a kind about a node is the last of its kind that the
\* consumer receives, unless a full mailbox evicts it: what coalescing and the check for
\* duplicates take out never leaves an event dispatched before it behind it.
THEOREM LatestAlwaysSurvives == Spec => []LatestSurvives
<1>1. LatestInv => LatestSurvives
  BY DEF LatestInv
<1> QED BY <1>1, InvariantHolds, PTL

\* The consumer of a mailbox with events in it is awake, has been woken or is about to be.
THEOREM NoWakeIsLost == Spec => []NoLostWake
<1>1. LatestInv => NoLostWake
  BY DEF LatestInv, MailboxInv
<1> QED BY <1>1, InvariantHolds, PTL

===============================================================================
