------------------------- MODULE AgentLimitsProofs --------------------------
(* Proofs about the agent's limits, for any senders, buckets, costs,       *)
(* clocks and failures: types, and what can be spent.  They hold of the    *)
(* composition: a step of another service leaves the limits alone.         *)
EXTENDS Services, FiniteSetTheorems, SequenceTheorems, TLAPS

\* A behaviour of the services is one of the limits, or leaves them alone.
LEMMA LimitsFollowed ==
    /\ Init => Limits!Init
    /\ [Next]_vars => [Limits!Next]_limits
  BY DEF Init, Next, vars, limits

-----------------------------------------------------------------------------
\* The sum of the n[t], counted as cells of a table.
Cells(n) == {p \in Limits!Turns \X (1..MaxCost) : p[2] <= n[p[1]]}
Total(n) == Cardinality(Cells(n))

\* The cells of one turn.
LEMMA CostRange ==
    ASSUME NEW k \in 0..MaxCost
    PROVE  /\ k \in Nat /\ 1..k \subseteq 1..MaxCost
           /\ IsFiniteSet(1..k) /\ Cardinality(1..k) = k
<1>1. k \in Nat /\ 1 \in Int /\ k \in Int /\ 1..k \subseteq 1..MaxCost
  BY LimitsAssumption
<1> QED
  BY <1>1, FS_Interval

\* A sum is a number, and no more than all turns can cost.
LEMMA TotalType ==
    ASSUME NEW n
    PROVE  /\ IsFiniteSet(Cells(n)) /\ Total(n) \in Nat
           /\ Total(n) <= MaxInFlight * MaxCost
<1>1. /\ 1 \in Int /\ MaxInFlight \in Int /\ MaxCost \in Int
      /\ MaxInFlight \in Nat /\ MaxCost \in Nat
  BY LimitsAssumption
<1>2. /\ IsFiniteSet(1..MaxInFlight) /\ Cardinality(1..MaxInFlight) = MaxInFlight
      /\ IsFiniteSet(1..MaxCost) /\ Cardinality(1..MaxCost) = MaxCost
  BY <1>1, FS_Interval
<1>3. /\ IsFiniteSet(Limits!Turns \X (1..MaxCost))
      /\ Cardinality(Limits!Turns \X (1..MaxCost)) = MaxInFlight * MaxCost
  <2>1. IsFiniteSet(Limits!Turns) /\ Cardinality(Limits!Turns) = MaxInFlight
    BY <1>2 DEF Limits!Turns
  <2>2. /\ IsFiniteSet(Limits!Turns \X (1..MaxCost))
        /\ Cardinality(Limits!Turns \X (1..MaxCost))
             = Cardinality(Limits!Turns) * Cardinality(1..MaxCost)
    BY <1>2, <2>1, FS_Product
  <2> QED
    BY <1>2, <2>1, <2>2
<1>4. Cells(n) \in SUBSET (Limits!Turns \X (1..MaxCost))
  BY DEF Cells
<1> QED
  BY <1>3, <1>4, FS_Subset, FS_CardinalityType DEF Total

\* What changes in a sum when one turn changes.
LEMMA TotalChange ==
    ASSUME NEW n \in [Limits!Turns -> 0..MaxCost], NEW t \in Limits!Turns,
           NEW k \in 0..MaxCost
    PROVE  Total([n EXCEPT ![t] = k]) = Total(n) - n[t] + k
<1> DEFINE m == [n EXCEPT ![t] = k]
           Rest == {p \in Cells(n) : p[1] # t}
           Row(j) == {t} \X (1..j)
<1>1. n[t] \in 0..MaxCost
  OBVIOUS
<1>2. ASSUME NEW j \in 0..MaxCost
      PROVE  /\ IsFiniteSet(Row(j)) /\ Cardinality(Row(j)) = j
             /\ Rest \cap Row(j) = {}
  <2>1. j \in Nat /\ IsFiniteSet(1..j) /\ Cardinality(1..j) = j
    BY CostRange
  <2>2. IsFiniteSet({t}) /\ Cardinality({t}) = 1
    BY FS_Singleton
  <2>3. IsFiniteSet(Row(j)) /\ Cardinality(Row(j)) = 1 * j
    BY <2>1, <2>2, FS_Product
  <2>4. 1 * j = j
    BY <2>1
  <2>5. Rest \cap Row(j) = {}
    OBVIOUS
  <2> QED
    BY <2>3, <2>4, <2>5
<1>3. IsFiniteSet(Rest) /\ Cardinality(Rest) \in Nat
  <2>1. IsFiniteSet(Cells(n)) /\ Rest \in SUBSET Cells(n)
    BY TotalType
  <2> QED
    BY <2>1, FS_Subset, FS_CardinalityType
<1>4. ASSUME NEW j \in 0..MaxCost
      PROVE  Cardinality(Rest \cup Row(j)) = Cardinality(Rest) + j
  <2>1. /\ IsFiniteSet(Row(j)) /\ Cardinality(Row(j)) = j
        /\ Rest \cap Row(j) = {} /\ j \in Nat
    BY <1>2, CostRange
  <2>2. Cardinality(Rest \cup Row(j))
          = Cardinality(Rest) + Cardinality(Row(j)) - Cardinality(Rest \cap Row(j))
    BY <1>3, <2>1, FS_Union
  <2>3. Cardinality(Rest \cap Row(j)) = 0
    BY <2>1, FS_EmptySet
  <2> QED
    BY <1>3, <2>1, <2>2, <2>3
<1>5. ASSUME NEW j \in 0..MaxCost, NEW i, \A q \in Limits!Turns : i[q] = IF q = t THEN j ELSE n[q]
      PROVE  Cells(i) = Rest \cup Row(j)
  <2>1. 1..j \subseteq 1..MaxCost /\ j \in Nat
    BY CostRange
  <2>2. ASSUME NEW p \in Cells(i) PROVE p \in Rest \cup Row(j)
    <3>1. p \in Limits!Turns \X (1..MaxCost) /\ p[2] <= i[p[1]]
      BY <2>2 DEF Cells
    <3>2. CASE p[1] = t
      <4>1. p[2] <= j /\ p[2] \in 1..MaxCost
        BY <1>5, <3>1, <3>2
      <4>2. p[2] \in 1..j
        BY <2>1, <4>1
      <4>3. p = <<p[1], p[2]>>
        BY <3>1
      <4> QED
        BY <3>2, <4>2, <4>3
    <3>3. CASE p[1] # t
      BY <1>5, <3>1, <3>3 DEF Cells
    <3> QED
      BY <3>2, <3>3
  <2>3. ASSUME NEW p \in Rest PROVE p \in Cells(i)
    <3>1. p \in Limits!Turns \X (1..MaxCost) /\ p[2] <= n[p[1]] /\ p[1] # t
      BY <2>3 DEF Cells
    <3>2. i[p[1]] = n[p[1]]
      BY <1>5, <3>1
    <3> QED
      BY <3>1, <3>2 DEF Cells
  <2>4. ASSUME NEW p \in Row(j) PROVE p \in Cells(i)
    <3>1. p \in Limits!Turns \X (1..MaxCost) /\ p[1] = t /\ p[2] \in 1..j
      BY <2>1, <2>4
    <3>2. p[2] <= i[p[1]]
      BY <1>5, <2>1, <3>1
    <3> QED
      BY <3>1, <3>2 DEF Cells
  <2> QED
    BY <2>2, <2>3, <2>4
<1>6. Cells(n) = Rest \cup Row(n[t])
  BY <1>1, <1>5
<1>7. Cells(m) = Rest \cup Row(k)
  BY <1>5
<1>8. Total(n) = Cardinality(Rest) + n[t]
  BY <1>1, <1>4, <1>6 DEF Total
<1>9. Total(m) = Cardinality(Rest) + k
  BY <1>4, <1>7 DEF Total
<1> QED
  BY <1>1, <1>3, <1>8, <1>9

\* A sum grows with what is summed.
LEMMA TotalLess ==
    ASSUME NEW n \in [Limits!Turns -> 0..MaxCost], NEW m \in [Limits!Turns -> 0..MaxCost],
           \A t \in Limits!Turns : n[t] <= m[t]
    PROVE  Total(n) <= Total(m)
<1>1. Cells(n) \in SUBSET Cells(m)
  <2>1. ASSUME NEW p \in Cells(n) PROVE p \in Cells(m)
    <3>1. p \in Limits!Turns \X (1..MaxCost) /\ p[2] <= n[p[1]]
      BY <2>1 DEF Cells
    <3>2. n[p[1]] <= m[p[1]] /\ n[p[1]] \in 0..MaxCost /\ m[p[1]] \in 0..MaxCost
      BY <3>1
    <3>3. p[2] <= m[p[1]]
      BY <3>1, <3>2, LimitsAssumption
    <3> QED
      BY <3>1, <3>3 DEF Cells
  <2> QED
    BY <2>1
<1> QED
  BY <1>1, TotalType, FS_Subset DEF Total

\* What turn v has spent of bucket b and not yet settled there, and what it may
\* still make of that: it passed the check of b, or the check was given up.
In(b, s) == \E i \in DOMAIN s : s[i] = b
Owes(v, b) == IF v.step = "debit" /\ In(b, v.left) THEN v.cost ELSE 0
Passed(v, b) ==
    \/ v.step = "call" /\ In(b, Limits!BucketsOf(v.conversation))
    \/ /\ v.step = "check" /\ ~v.over
       /\ In(b, Limits!BucketsOf(v.conversation)) /\ ~In(b, v.left)
Risks(v, b) == IF Passed(v, b) THEN MaxCost ELSE Owes(v, b)
Debts(b)  == Total([t \in Limits!Turns |-> Owes(turn[t], b)])
Stakes(b) == Total([t \in Limits!Turns |-> Risks(turn[t], b)])

\* What was spent of b and settled there, or lost in an outage.
Spent(b) == used[b] - Debts(b)

\* What a bucket holds and what was spent of it are never more than it held and
\* was refilled; its key lives until it would be full.
Level(b) ==
    IF bucket[b].stored
    THEN /\ bucket[b].balance + Spent(b)
              <= Limits!Capacity(b) + Rate * (bucket[b].at + late) + MaxCost * outages
         /\ Limits!Capacity(b) - bucket[b].balance <= Rate * (bucket[b].expires - bucket[b].at)
    ELSE Spent(b) <= Rate * (now + late) + MaxCost * outages

\* What the turns under way may spend at most on top.
Staked(b) ==
    Spent(b) + Stakes(b)
        < Limits!Capacity(b) + Rate * (now + late) + MaxCost * (MaxInFlight + outages)

Ledger == \A b \in Limits!Buckets : Level(b) /\ Staked(b)

\* A turn waits for the language model, or settles what it has left of its buckets.
Waiting(v) == v \in [step : {"call"}, conversation : Conversations]
Lefts(c) == {Limits!BucketsOf(c)} \cup (IF c[2] = "group" THEN {<<Group>>} ELSE {})
Settlements ==
    [step : {"check", "debit"}, conversation : Conversations, clock : Nat,
     cost : 0..MaxCost, left : Seq(Limits!Buckets), over : BOOLEAN]
Charging(v) ==
    /\ v \in Settlements
    /\ v.conversation[1] \notin Owners /\ v.left \in Lefts(v.conversation)
    /\ v.clock <= now /\ (v.step = "check" => v.cost = 0)

Shaped(v) == v = Limits!NoTurn \/ Waiting(v) \/ Charging(v)

\* The shapes of the buckets, windows and turns.
StoredBucket == [stored : {TRUE}, balance : Int, at : Nat, expires : Nat]
StoredWindow == [stored : {TRUE}, turns : Nat, expires : Nat]
LimitShapes ==
    /\ now \in Nat /\ late \in Nat /\ outages \in Nat /\ asked \in Nat
    /\ bucket \in [Limits!Buckets -> StoredBucket \cup {Limits!NotStored}]
    /\ window \in [Conversations -> StoredWindow \cup {Limits!NotStored}]
    /\ used \in [Limits!Buckets -> Nat]
    /\ DOMAIN turn = Limits!Turns /\ turn = [t \in Limits!Turns |-> turn[t]]
    /\ \A t \in Limits!Turns : Shaped(turn[t])

\* What the shapes leave open of TypeOK: what a key may hold.
BucketFits(b, e) == e.stored => /\ e.balance <= Limits!Capacity(b)
                                /\ e.at <= now /\ now < e.expires
WindowFits(e) == e.stored => /\ 1 <= e.turns /\ e.turns <= asked
                             /\ now < e.expires /\ e.expires <= now + WINDOW
LimitRanges ==
    /\ now <= MaxTime /\ asked <= MaxTurns
    /\ \A b \in Limits!Buckets : BucketFits(b, bucket[b])
    /\ \A c \in Conversations : WindowFits(window[c])

\* The capacities and bounds as the steps below use them.
LEMMA Positive ==
    /\ UserCapacity \in Nat \ {0} /\ GroupCapacity \in Nat \ {0}
    /\ Rate \in Nat \ {0} /\ WINDOW \in Nat \ {0}
    /\ MaxCost \in Nat /\ MaxInFlight \in Nat
    /\ MaxTurns \in Nat /\ MaxTime \in Nat /\ MaxOutages \in Nat
    /\ \A b : Limits!Capacity(b) \in Nat \ {0}
  BY LimitsAssumption DEF Limits!Capacity

\* The buckets of a conversation, and what is left of them after the first.
LEMMA BucketLists ==
    ASSUME NEW c \in Conversations
    PROVE  /\ c[1] \in Users
           /\ c[1] \in Owners => Limits!BucketsOf(c) = <<>>
           /\ c[1] \notin Owners /\ c[2] = "group" =>
                Limits!BucketsOf(c) = <<c[1], Group>>
           /\ c[1] \notin Owners /\ c[2] # "group" => Limits!BucketsOf(c) = <<c[1]>>
  BY LimitsAssumption DEF Conversations, Limits!BucketsOf

\* Membership in the lists of buckets there are.
LEMMA InLists ==
    ASSUME NEW u \in Users
    PROVE  \A b : /\ ~In(b, <<>>)
                  /\ In(b, <<u>>) <=> b = u
                  /\ In(b, <<Group>>) <=> b = Group
                  /\ In(b, <<u, Group>>) <=> (b = u \/ b = Group)
<1>1. \A b : /\ ~In(b, <<>>)
             /\ In(b, <<u>>) <=> b = u
             /\ In(b, <<Group>>) <=> b = Group
  BY DEF In
<1>2. \A b : In(b, <<u, Group>>) <=> (b = u \/ b = Group)
  <2>1. DOMAIN <<u, Group>> = {1, 2} /\ <<u, Group>>[1] = u /\ <<u, Group>>[2] = Group
    OBVIOUS
  <2> QED
    BY <2>1 DEF In
<1> QED
  BY <1>1, <1>2

\* Their first buckets, and what follows.
LEMMA ListEnds ==
    ASSUME NEW u
    PROVE  /\ <<u>> # <<>> /\ Head(<<u>>) = u /\ Tail(<<u>>) = <<>>
           /\ <<u, Group>> # <<>> /\ Head(<<u, Group>>) = u
           /\ Tail(<<u, Group>>) = <<Group>>
<1>1. <<u>> # <<>> /\ Head(<<u>>) = u /\ Tail(<<u>>) = <<>>
  OBVIOUS
<1>2. <<u, Group>> # <<>> /\ Head(<<u, Group>>) = u /\ Tail(<<u, Group>>) = <<Group>>
  OBVIOUS
<1> QED
  BY <1>1, <1>2

\* They are lists of different buckets.
LEMMA ListTypes ==
    ASSUME NEW u \in Users
    PROVE  /\ Group # u /\ u \in Limits!Buckets /\ Group \in Limits!Buckets
           /\ <<u>> \in Seq(Limits!Buckets) /\ <<Group>> \in Seq(Limits!Buckets)
           /\ <<u, Group>> \in Seq(Limits!Buckets)
<1>1. Group # u /\ u \in Limits!Buckets /\ Group \in Limits!Buckets
  BY LimitsAssumption DEF Limits!Buckets
<1> QED
  BY <1>1

\* A settling turn has a first bucket left; what remains after it is a list of
\* buckets of the conversation again, without the first.
LEMMA SettlingLists ==
    ASSUME NEW v, Charging(v)
    PROVE  /\ v.left # <<>> /\ Head(v.left) \in Limits!Buckets
           /\ In(Head(v.left), Limits!BucketsOf(v.conversation))
           /\ ~In(Head(v.left), Tail(v.left))
           /\ \A b : b # Head(v.left) => (In(b, Tail(v.left)) <=> In(b, v.left))
           /\ In(Head(v.left), v.left)
           /\ Tail(v.left) # <<>> =>
                Tail(v.left) \in Lefts(v.conversation) /\ Tail(v.left) \in Seq(Limits!Buckets)
           /\ Tail(v.left) = <<>> =>
                \A b : In(b, v.left) => b = Head(v.left)
           /\ \A b : In(b, v.left) => In(b, Limits!BucketsOf(v.conversation))
<1>1. /\ v.conversation \in Conversations /\ v.conversation[1] \notin Owners
      /\ v.left \in Lefts(v.conversation)
  BY DEF Charging, Settlements
<1>2. PICK u \in Users : u = v.conversation[1]
  BY <1>1, BucketLists
<1>3. PICK owned : owned = Limits!BucketsOf(v.conversation)
  OBVIOUS
<1>4. PICK left : left = v.left
  OBVIOUS
<1>5. \/ left = <<u>> /\ owned = <<u>>
      \/ left = <<u, Group>> /\ owned = <<u, Group>> /\ v.conversation[2] = "group"
      \/ left = <<Group>> /\ owned = <<u, Group>>
  BY <1>1, <1>2, <1>3, <1>4, BucketLists DEF Lefts
<1>6. /\ Group # u /\ u \in Limits!Buckets /\ Group \in Limits!Buckets
      /\ <<Group>> \in Seq(Limits!Buckets)
  BY ListTypes
<1>7. /\ \A b : /\ ~In(b, <<>>)
                /\ In(b, <<u>>) <=> b = u
                /\ In(b, <<Group>>) <=> b = Group
                /\ In(b, <<u, Group>>) <=> (b = u \/ b = Group)
  BY InLists
<1> DEFINE first == Head(left)
           others == Tail(left)
<1>8. \/ left = <<u>> /\ owned = <<u>> /\ first = u /\ others = <<>>
      \/ /\ left = <<u, Group>> /\ owned = <<u, Group>>
         /\ first = u /\ others = <<Group>> /\ v.conversation[2] = "group"
      \/ left = <<Group>> /\ owned = <<u, Group>> /\ first = Group /\ others = <<>>
  BY <1>5, ListEnds
<1>9. left # <<>>
  BY <1>5, ListEnds
<1>10. <<Group>> # <<>>
  BY ListEnds
<1> HIDE DEF first, others
<1>11. /\ first \in Limits!Buckets /\ In(first, owned) /\ In(first, left)
       /\ ~In(first, others)
       /\ \A b : b # first => (In(b, others) <=> In(b, left))
       /\ \A b : In(b, left) => In(b, owned)
  <2>1. CASE left = <<u>> /\ owned = <<u>> /\ first = u /\ others = <<>>
    BY <1>6, <1>7, <2>1
  <2>2. CASE /\ left = <<u, Group>> /\ owned = <<u, Group>>
             /\ first = u /\ others = <<Group>>
    BY <1>6, <1>7, <2>2
  <2>3. CASE left = <<Group>> /\ owned = <<u, Group>> /\ first = Group /\ others = <<>>
    BY <1>6, <1>7, <2>3
  <2> QED
    BY <1>8, <2>1, <2>2, <2>3
<1>12. /\ others # <<>> => /\ others \in Lefts(v.conversation)
                          /\ others \in Seq(Limits!Buckets)
       /\ others = <<>> => \A b : In(b, left) => b = first
  <2>1. CASE left = <<u>> /\ first = u /\ others = <<>>
    BY <1>7, <2>1
  <2>2. CASE others = <<Group>> /\ v.conversation[2] = "group"
    BY <1>6, <1>10, <2>2 DEF Lefts
  <2>3. CASE left = <<Group>> /\ first = Group /\ others = <<>>
    BY <1>7, <2>3
  <2> QED
    BY <1>8, <2>1, <2>2, <2>3
<1> QED
  BY <1>3, <1>4, <1>9, <1>11, <1>12 DEF first, others

\* A key that is stored has its fields.
LEMMA StoredBuckets ==
    ASSUME LimitShapes, NEW b \in Limits!Buckets
    PROVE  /\ bucket[b].stored \in BOOLEAN
           /\ ~bucket[b].stored => bucket[b] = Limits!NotStored
           /\ bucket[b].stored =>
                /\ bucket[b] \in StoredBucket /\ bucket[b] # Limits!NotStored
                /\ bucket[b].balance \in Int /\ bucket[b].at \in Nat /\ bucket[b].expires \in Nat
<1>1. bucket[b] \in StoredBucket \/ bucket[b] = Limits!NotStored
  BY DEF LimitShapes
<1>2. CASE bucket[b] \in StoredBucket
  <2>1. /\ bucket[b].stored = TRUE /\ bucket[b].balance \in Int
        /\ bucket[b].at \in Nat /\ bucket[b].expires \in Nat
    BY <1>2 DEF StoredBucket
  <2>2. bucket[b] # Limits!NotStored
    BY <2>1 DEF Limits!NotStored
  <2> QED
    BY <1>2, <2>1, <2>2
<1>3. CASE bucket[b] = Limits!NotStored
  <2>1. bucket[b].stored = FALSE
    BY <1>3 DEF Limits!NotStored
  <2> QED
    BY <1>3, <2>1
<1> QED
  BY <1>1, <1>2, <1>3

\* What the settle script writes: the bucket up to the caller's clock, never
\* more than it held and was refilled, with a key that lives until it is full.
Written(b, clock, cost, s) ==
    /\ s.stored = TRUE /\ s.at = clock /\ s.balance \in Int /\ s.expires \in Int
    /\ s = [stored |-> s.stored, balance |-> s.balance, at |-> s.at, expires |-> s.expires]
    /\ s.balance <= Limits!Capacity(b) - cost
    /\ bucket[b].stored =>
         s.balance <= (bucket[b].balance + (clock - bucket[b].at) * Rate) - cost
    /\ Limits!Capacity(b) - s.balance <= Rate * (s.expires - now)

\* The settle script writes such a bucket.
LEMMA SettledBucket ==
    ASSUME LimitShapes, NEW b \in Limits!Buckets, NEW clock \in Nat, NEW cost \in Nat
    PROVE  Written(b, clock, cost, Limits!Settled(b, clock, cost))
<1> DEFINE C == Limits!Capacity(b)
           balance == IF bucket[b].stored THEN bucket[b].balance ELSE C
           at      == IF bucket[b].stored THEN bucket[b].at ELSE clock
           filled  == balance + (clock - at) * Rate
           left    == (IF filled < C THEN filled ELSE C) - cost
           fill    == Limits!FillTime(b, left)
           s       == Limits!Settled(b, clock, cost)
<1>1. C \in Nat /\ Rate \in Nat \ {0}
  BY Positive
<1>2. bucket[b].stored => bucket[b].balance \in Int /\ bucket[b].at \in Nat
  BY StoredBuckets
<1>3. balance \in Int /\ at \in Int
  BY <1>1, <1>2
<1>4. s = [stored |-> TRUE, balance |-> left, at |-> clock, expires |-> now + fill]
  BY DEF Limits!Settled
<1> HIDE DEF C
<1>5. filled \in Int
  BY <1>1, <1>3
<1>6. left \in Int /\ left <= C - cost /\ left <= filled - cost
  BY <1>1, <1>5
<1>7. fill = (C - left + Rate - 1) \div Rate
  BY DEF Limits!FillTime, C
<1> HIDE DEF left, fill, filled
<1>8. fill \in Int /\ C - left <= Rate * fill
  BY <1>1, <1>6, <1>7
<1>9. now \in Int /\ (now + fill) - now = fill
  BY <1>8 DEF LimitShapes
<1>10. bucket[b].stored => filled = bucket[b].balance + (clock - bucket[b].at) * Rate
  BY DEF filled
<1> HIDE DEF s
<1>11. /\ s.stored = TRUE /\ s.at = clock /\ s.balance = left /\ s.expires = now + fill
       /\ s = [stored |-> s.stored, balance |-> s.balance, at |-> s.at, expires |-> s.expires]
  BY <1>4
<1>12. s.balance \in Int /\ s.expires \in Int
  BY <1>6, <1>8, <1>9, <1>11
<1>13. s.balance <= C - cost
  BY <1>6, <1>11
<1>14. ASSUME bucket[b].stored
       PROVE  s.balance <= (bucket[b].balance + (clock - bucket[b].at) * Rate) - cost
  <2>1. filled = bucket[b].balance + (clock - bucket[b].at) * Rate
    BY <1>10, <1>14
  <2>2. s.balance <= filled - cost
    BY <1>6, <1>11
  <2> QED
    BY <2>1, <2>2
<1>15. C - s.balance <= Rate * (s.expires - now)
  BY <1>8, <1>9, <1>11
<1>16. Written(b, clock, cost, s)
  BY <1>11, <1>12, <1>13, <1>14, <1>15 DEF C, Written
<1> QED
  BY <1>16 DEF s

\* The step of a turn tells what else it carries.
LEMMA TurnKinds ==
    ASSUME NEW v, Shaped(v)
    PROVE  /\ v.step \in {"check", "debit"} => Charging(v)
           /\ v.step = "call" => Waiting(v)
<1>1. CASE v = Limits!NoTurn
  <2>1. v.step = "none"
    BY <1>1 DEF Limits!NoTurn
  <2> QED
    BY <2>1
<1>2. CASE Waiting(v)
  <2>1. v.step = "call"
    BY <1>2 DEF Waiting
  <2> QED
    BY <1>2, <2>1
<1>3. CASE Charging(v)
  <2>1. v.step \in {"check", "debit"}
    BY <1>3 DEF Charging, Settlements
  <2> QED
    BY <1>3, <2>1
<1> QED
  BY <1>1, <1>2, <1>3 DEF Shaped

\* What a turn owes and risks, by what it is doing.
LEMMA TurnNumbers ==
    ASSUME NEW v, Shaped(v), NEW b
    PROVE  /\ Owes(v, b) \in 0..MaxCost /\ Risks(v, b) \in 0..MaxCost
           /\ Owes(v, b) <= Risks(v, b)
           /\ v = Limits!NoTurn => Owes(v, b) = 0 /\ Risks(v, b) = 0
           /\ v.step \in {"call", "check"} => Owes(v, b) = 0
           /\ v.step = "debit" => Risks(v, b) = Owes(v, b)
<1>0. 0 \in 0..MaxCost /\ MaxCost \in 0..MaxCost /\ MaxCost \in Nat
  BY Positive
<1>1. CASE v = Limits!NoTurn
  <2>1. v.step = "none"
    BY <1>1 DEF Limits!NoTurn
  <2>2. ~Passed(v, b) /\ Owes(v, b) = 0
    BY <2>1 DEF Passed, Owes
  <2> QED
    BY <1>0, <2>1, <2>2 DEF Risks
<1>2. CASE Waiting(v)
  <2>1. v.step = "call" /\ v # Limits!NoTurn
    BY <1>2 DEF Waiting, Limits!NoTurn
  <2>2. Owes(v, b) = 0
    BY <2>1 DEF Owes
  <2> QED
    BY <1>0, <2>1, <2>2 DEF Risks
<1>3. CASE Charging(v)
  <2>1. v.step \in {"check", "debit"} /\ v.cost \in 0..MaxCost
    BY <1>3 DEF Charging, Settlements
  <2>2. v # Limits!NoTurn
    BY <2>1 DEF Limits!NoTurn
  <2>3. CASE v.step = "check"
    <3>1. Owes(v, b) = 0
      BY <2>3 DEF Owes
    <3> QED
      BY <1>0, <2>2, <2>3, <3>1 DEF Risks
  <2>4. CASE v.step = "debit"
    <3>1. ~Passed(v, b) /\ Owes(v, b) \in 0..MaxCost
      BY <1>0, <2>1, <2>4 DEF Owes, Passed
    <3>2. Risks(v, b) = Owes(v, b)
      BY <3>1 DEF Risks
    <3> QED
      BY <1>0, <2>2, <2>4, <3>1, <3>2
  <2> QED
    BY <2>1, <2>3, <2>4
<1> QED
  BY <1>1, <1>2, <1>3 DEF Shaped

\* A step of one turn moves the sums by what that turn owes and risks.
LEMMA SumsMove ==
    ASSUME LimitShapes, NEW t \in Limits!Turns, NEW w, Shaped(w),
           turn' = [turn EXCEPT ![t] = w], NEW b
    PROVE  /\ Debts(b)' = Debts(b) - Owes(turn[t], b) + Owes(w, b)
           /\ Stakes(b)' = Stakes(b) - Risks(turn[t], b) + Risks(w, b)
<1> DEFINE owing  == [q \in Limits!Turns |-> Owes(turn[q], b)]
           risked == [q \in Limits!Turns |-> Risks(turn[q], b)]
<1>1. owing \in [Limits!Turns -> 0..MaxCost] /\ risked \in [Limits!Turns -> 0..MaxCost]
  BY TurnNumbers DEF LimitShapes
<1>2. Owes(w, b) \in 0..MaxCost /\ Risks(w, b) \in 0..MaxCost
  BY TurnNumbers
<1>3. \A q \in Limits!Turns : turn'[q] = IF q = t THEN w ELSE turn[q]
  BY DEF LimitShapes
<1>4. [q \in Limits!Turns |-> Owes(turn'[q], b)] = [owing EXCEPT ![t] = Owes(w, b)]
  <2>1. \A q \in Limits!Turns : Owes(turn'[q], b) = IF q = t THEN Owes(w, b) ELSE owing[q]
    BY <1>3
  <2> QED
    BY <2>1
<1>5. [q \in Limits!Turns |-> Risks(turn'[q], b)] = [risked EXCEPT ![t] = Risks(w, b)]
  <2>1. \A q \in Limits!Turns : Risks(turn'[q], b) = IF q = t THEN Risks(w, b) ELSE risked[q]
    BY <1>3
  <2> QED
    BY <2>1
<1>6. Debts(b)' = Total([owing EXCEPT ![t] = Owes(w, b)])
  BY <1>4 DEF Debts
<1>7. Stakes(b)' = Total([risked EXCEPT ![t] = Risks(w, b)])
  BY <1>5 DEF Stakes
<1>8. /\ Total([owing EXCEPT ![t] = Owes(w, b)]) = Total(owing) - owing[t] + Owes(w, b)
      /\ Total([risked EXCEPT ![t] = Risks(w, b)]) = Total(risked) - risked[t] + Risks(w, b)
  BY <1>1, <1>2, TotalChange
<1>9. owing[t] = Owes(turn[t], b) /\ risked[t] = Risks(turn[t], b)
  OBVIOUS
<1>10. Debts(b) = Total(owing) /\ Stakes(b) = Total(risked)
  BY DEF Debts, Stakes
<1> HIDE DEF owing, risked
<1> QED
  BY <1>6, <1>7, <1>8, <1>9, <1>10

\* What is owed and at stake are numbers, before and after a step.
LEMMA SumTypes ==
    ASSUME NEW b
    PROVE  /\ Debts(b) \in Nat /\ Stakes(b) \in Nat
           /\ Debts(b)' \in Nat /\ Stakes(b)' \in Nat
           /\ Stakes(b)' <= MaxInFlight * MaxCost
  BY TotalType DEF Debts, Stakes

\* A turn starts to settle the buckets of its conversation: a check owes and
\* risks nothing yet, a debit what the call cost.
LEMMA SettlingStarts ==
    ASSUME LimitShapes, NEW st \in {"check", "debit"}, NEW c \in Conversations,
           NEW cost \in 0..MaxCost, st = "check" => cost = 0,
           NEW w, w = Limits!Settling(st, c, cost)
    PROVE  /\ Shaped(w)
           /\ \A b : /\ Owes(w, b) = IF In(b, Limits!BucketsOf(c)) THEN cost ELSE 0
                     /\ Risks(w, b) = Owes(w, b)
<1>1. PICK u \in Users : u = c[1]
  BY BucketLists
<1>2. CASE u \in Owners
  <2>1. Limits!BucketsOf(c) = <<>>
    BY <1>1, <1>2, BucketLists
  <2>2. \A b : ~In(b, Limits!BucketsOf(c))
    <3>1. \A b : ~In(b, <<>>)
      BY DEF In
    <3> QED
      BY <2>1, <3>1, Zenon
  <2>3. w = Limits!InCall(c) \/ w = Limits!NoTurn
    BY <2>1 DEF Limits!Settling
  <2>4. CASE w = Limits!InCall(c)
    <3>1. w.step = "call" /\ w.conversation = c /\ Waiting(w)
      BY <2>4 DEF Limits!InCall, Waiting
    <3>2. \A b : Owes(w, b) = 0 /\ Risks(w, b) = 0
      BY <2>2, <3>1 DEF Owes, Risks, Passed
    <3> QED
      BY <2>2, <3>1, <3>2 DEF Shaped
  <2>5. CASE w = Limits!NoTurn
    BY <2>2, <2>5, TurnNumbers DEF Shaped
  <2> QED
    BY <2>3, <2>4, <2>5
<1>3. CASE u \notin Owners
  <2>1. \/ Limits!BucketsOf(c) = <<u>>
        \/ Limits!BucketsOf(c) = <<u, Group>>
    BY <1>1, <1>3, BucketLists
  <2>2. Limits!BucketsOf(c) # <<>> /\ Limits!BucketsOf(c) \in Seq(Limits!Buckets)
    BY <2>1, ListEnds, ListTypes
  <2>3. w = [step |-> st, conversation |-> c, clock |-> now, cost |-> cost,
             left |-> Limits!BucketsOf(c), over |-> FALSE]
    BY <2>2 DEF Limits!Settling
  <2>4. /\ w.step = st /\ w.conversation = c /\ w.clock = now /\ w.cost = cost
        /\ w.left = Limits!BucketsOf(c)
    BY <2>3
  <2>5. w \in Settlements
    BY <2>2, <2>3 DEF Settlements, LimitShapes
  <2>6. Charging(w)
    BY <1>1, <1>3, <2>4, <2>5 DEF Charging, Lefts, LimitShapes
  <2>7. \A b : Owes(w, b) = IF In(b, Limits!BucketsOf(c)) THEN cost ELSE 0
    BY <2>4 DEF Owes
  <2>8. \A b : ~Passed(w, b)
    BY <2>4 DEF Passed
  <2> QED
    BY <2>6, <2>7, <2>8 DEF Shaped, Risks
<1> QED
  BY <1>2, <1>3

\* A turn that settled the first bucket it has left: the others stand as they
\* did, and the first is at stake from now on only if no bucket was over.
GoesOn(v, over, h, w) ==
    /\ Shaped(w)
    /\ \A b : b # h => Owes(w, b) = Owes(v, b) /\ Risks(w, b) <= Risks(v, b)
    /\ Owes(w, h) = 0 /\ (over \/ v.step = "debit" => Risks(w, h) = 0)
    /\ Owes(v, h) = v.cost

LEMMA SettlingGoesOn ==
    ASSUME LimitShapes, NEW v, Charging(v), NEW over \in BOOLEAN, v.over => over
    PROVE  GoesOn(v, over, Head(v.left), Limits!AfterSettling(v, over))
<1> DEFINE w == Limits!AfterSettling(v, over)
           h == Head(v.left)
<1> SUFFICES GoesOn(v, over, h, w)
  OBVIOUS
<1>0. 0 \in 0..MaxCost /\ MaxCost \in Nat /\ 0 <= MaxCost
  BY Positive
<1>1. /\ v \in Settlements /\ v.step \in {"check", "debit"} /\ v.cost \in 0..MaxCost
      /\ v.conversation \in Conversations /\ v.conversation[1] \notin Owners
      /\ v.clock <= now /\ (v.step = "check" => v.cost = 0)
  BY DEF Charging, Settlements
<1>2. /\ In(h, Limits!BucketsOf(v.conversation)) /\ In(h, v.left)
      /\ ~In(h, Tail(v.left))
      /\ \A b : b # h => (In(b, Tail(v.left)) <=> In(b, v.left))
      /\ Tail(v.left) # <<>> =>
           Tail(v.left) \in Lefts(v.conversation) /\ Tail(v.left) \in Seq(Limits!Buckets)
      /\ Tail(v.left) = <<>> => \A b : In(b, v.left) => b = h
  BY SettlingLists
<1> HIDE DEF h
<1>3. Owes(v, h) = v.cost
  BY <1>1, <1>2 DEF Owes
<1>4. \A b : Owes(v, b) \in 0..MaxCost /\ Risks(v, b) \in 0..MaxCost
  BY TurnNumbers DEF Shaped
<1>5. CASE Tail(v.left) # <<>>
  <2>1. w = [v EXCEPT !.left = Tail(v.left), !.over = over]
    BY <1>5 DEF Limits!AfterSettling
  <2>2. /\ w \in Settlements /\ w.step = v.step /\ w.conversation = v.conversation
        /\ w.clock = v.clock /\ w.cost = v.cost /\ w.left = Tail(v.left) /\ w.over = over
    BY <1>1, <1>2, <1>5, <2>1 DEF Settlements
  <2>3. Charging(w)
    BY <1>1, <1>2, <1>5, <2>2 DEF Charging
  <2>4. \A b : b # h => Owes(w, b) = Owes(v, b)
    BY <1>2, <2>2 DEF Owes
  <2>5. \A b : b # h => (Passed(w, b) => Passed(v, b))
    BY <1>1, <1>2, <2>2 DEF Passed
  <2>6. ASSUME NEW b, b # h
        PROVE  Risks(w, b) <= Risks(v, b)
    <3>1. CASE Passed(v, b)
      <4>1. Risks(v, b) = MaxCost /\ Owes(w, b) \in 0..MaxCost
        BY <1>4, <2>4, <2>6, <3>1 DEF Risks
      <4> QED
        BY <1>0, <4>1 DEF Risks
    <3>2. CASE ~Passed(v, b)
      <4>1. Risks(w, b) = Risks(v, b)
        BY <2>4, <2>5, <2>6, <3>2 DEF Risks
      <4> QED
        BY <1>4, <4>1
    <3> QED
      BY <3>1, <3>2
  <2>7. Owes(w, h) = 0
    BY <1>2, <2>2 DEF Owes
  <2>8. over \/ v.step = "debit" => ~Passed(w, h)
    BY <1>1, <2>2 DEF Passed
  <2>9. over \/ v.step = "debit" => Risks(w, h) = 0
    BY <2>7, <2>8 DEF Risks
  <2> QED
    BY <1>3, <2>3, <2>4, <2>6, <2>7, <2>9 DEF Shaped, GoesOn
<1>6. CASE Tail(v.left) = <<>> /\ v.step = "check" /\ ~over
  <2>1. w = Limits!InCall(v.conversation)
    BY <1>6 DEF Limits!AfterSettling
  <2>2. w.step = "call" /\ w.conversation = v.conversation /\ Waiting(w)
    BY <1>1, <2>1 DEF Limits!InCall, Waiting
  <2>3. \A b : Owes(w, b) = 0 /\ Owes(v, b) = 0
    BY <1>6, <2>2 DEF Owes
  <2>4. ~v.over
    BY <1>6
  <2>5. \A b : b # h => (Passed(w, b) => Passed(v, b))
    BY <1>2, <1>6, <2>2, <2>4 DEF Passed
  <2>6. \A b : b # h => Risks(w, b) <= Risks(v, b)
    BY <1>0, <2>3, <2>5 DEF Risks
  <2> QED
    BY <1>3, <1>6, <2>2, <2>3, <2>6 DEF Shaped, GoesOn
<1>7. CASE Tail(v.left) = <<>> /\ ~(v.step = "check" /\ ~over)
  <2>1. w = Limits!NoTurn
    BY <1>7 DEF Limits!AfterSettling
  <2>2. \A b : Owes(w, b) = 0 /\ Risks(w, b) = 0
    BY <2>1, TurnNumbers DEF Shaped
  <2>3. \A b : b # h => ~In(b, v.left)
    BY <1>2, <1>7
  <2>4. \A b : b # h => Owes(v, b) = 0
    BY <2>3 DEF Owes
  <2>5. \A b : Risks(w, b) <= Risks(v, b)
    BY <1>4, <2>2
  <2> QED
    BY <1>3, <2>1, <2>2, <2>4, <2>5 DEF Shaped, GoesOn
<1> QED
  BY <1>5, <1>6, <1>7

\* A check that is given up puts at most one call at stake.
LEMMA CheckGivenUp ==
    ASSUME NEW v, Charging(v), v.step = "check", NEW w, w = Limits!InCall(v.conversation)
    PROVE  /\ Shaped(w)
           /\ \A b : /\ Owes(w, b) = 0 /\ Owes(v, b) = 0
                     /\ Risks(w, b) <= Risks(v, b) + MaxCost
<1>1. w.step = "call" /\ w.conversation = v.conversation /\ Waiting(w)
  BY DEF Limits!InCall, Waiting, Charging, Settlements
<1>2. \A b : Owes(w, b) = 0 /\ Owes(v, b) = 0
  BY <1>1 DEF Owes
<1>3. \A b : Risks(w, b) \in 0..MaxCost /\ Risks(v, b) \in 0..MaxCost
  BY <1>1, TurnNumbers DEF Shaped
<1>4. \A b : Risks(w, b) <= Risks(v, b) + MaxCost
  BY <1>3, Positive
<1> QED
  BY <1>1, <1>2, <1>4 DEF Shaped

\* A call that answers owes what it cost where it was at stake.
LEMMA CallAnswered ==
    ASSUME LimitShapes, NEW v, Waiting(v), NEW cost \in 1..MaxCost,
           NEW w, w = Limits!Settling("debit", v.conversation, cost)
    PROVE  /\ Shaped(w)
           /\ \A b : /\ Owes(v, b) = 0
                     /\ Owes(w, b) = IF In(b, Limits!BucketsOf(v.conversation)) THEN cost ELSE 0
                     /\ Risks(w, b) <= Risks(v, b)
<1>1. cost \in 0..MaxCost /\ MaxCost \in Nat /\ cost <= MaxCost /\ 0 <= 0
  BY Positive
<1>2. v.step = "call" /\ v.conversation \in Conversations
  BY DEF Waiting
<1>3. /\ Shaped(w)
      /\ \A b : /\ Owes(w, b) = IF In(b, Limits!BucketsOf(v.conversation)) THEN cost ELSE 0
                /\ Risks(w, b) = Owes(w, b)
  BY <1>1, <1>2, SettlingStarts
<1>4. \A b : Owes(v, b) = 0
  BY <1>2 DEF Owes
<1>5. \A b : Passed(v, b) <=> In(b, Limits!BucketsOf(v.conversation))
  BY <1>2 DEF Passed
<1>6. \A b : Risks(w, b) <= Risks(v, b)
  BY <1>1, <1>3, <1>4, <1>5 DEF Risks
<1> QED
  BY <1>3, <1>4, <1>6

\* Multiplication by a rate, as far as the accounts need it.
LEMMA Times ==
    ASSUME NEW m \in Nat, NEW i \in Int, NEW j \in Int
    PROVE  /\ m * i \in Int /\ m * j \in Int /\ m * (i + j) = m * i + m * j
           /\ m * (j - i) = m * j - m * i /\ (j - i) * m = m * j - m * i
           /\ i <= j => m * i <= m * j
<1>1. /\ m * i \in Int /\ m * j \in Int /\ m * (i + j) = m * i + m * j
      /\ m * (j - i) = m * j - m * i /\ (j - i) * m = m * j - m * i
  OBVIOUS
<1>2. ASSUME i <= j PROVE m * i <= m * j
  <2>1. j - i \in Nat /\ m * (j - i) \in Nat
    BY <1>2
  <2> QED
    BY <1>1, <2>1
<1> QED
  BY <1>1, <1>2

\* The settle script with a stored bucket, and with none: what the bucket holds
\* and what was spent stay below the refill up to the caller's clock.
LEMMA SettleStored ==
    ASSUME NEW m \in Nat, NEW cap \in Nat, NEW k \in Int, NEW spent \in Int,
           NEW balance \in Int, NEW at \in Nat, NEW lateness \in Nat,
           NEW clock \in Nat, NEW cost \in Nat, NEW left \in Int,
           balance + spent <= cap + m * (at + lateness) + k,
           left <= (balance + (clock - at) * m) - cost
    PROVE  left + (spent + cost) <= cap + m * (clock + lateness) + k
<1>1. /\ m * at \in Int /\ m * lateness \in Int /\ m * clock \in Int
      /\ m * (at + lateness) = m * at + m * lateness
      /\ m * (clock + lateness) = m * clock + m * lateness
      /\ (clock - at) * m = m * clock - m * at
  BY Times
<1> QED
  BY <1>1

\* The same for a bucket that is not there and reads as full: the clock that was
\* late for it counts as lateness.
LEMMA SettleMissing ==
    ASSUME NEW m \in Nat, NEW cap \in Nat, NEW k \in Int, NEW spent \in Int,
           NEW time \in Nat, NEW lateness \in Nat,
           NEW clock \in Nat, NEW cost \in Nat, NEW left \in Int,
           spent <= m * (time + lateness) + k, left <= cap - cost
    PROVE  left + (spent + cost) <= cap + m * (clock + (lateness + (time - clock))) + k
<1>1. clock + (lateness + (time - clock)) = time + lateness
  OBVIOUS
<1>2. m * (time + lateness) \in Int
  OBVIOUS
<1> QED
  BY <1>1, <1>2

\* A key that expires, or is deleted at once, leaves a bucket that reads as full:
\* it would have been.
LEMMA ReadsFull ==
    ASSUME NEW m \in Nat, NEW cap \in Nat, NEW k \in Int, NEW spent \in Int,
           NEW balance \in Int, NEW at \in Nat, NEW lateness \in Nat,
           NEW expires \in Int, NEW time \in Nat,
           balance + spent <= cap + m * (at + lateness) + k,
           cap - balance <= m * (expires - at), expires <= time
    PROVE  spent <= m * (time + lateness) + k
<1>1. /\ m * at \in Int /\ m * lateness \in Int /\ m * time \in Int /\ m * expires \in Int
      /\ m * (at + lateness) = m * at + m * lateness
      /\ m * (time + lateness) = m * time + m * lateness
      /\ m * (expires - at) = m * expires - m * at
      /\ m * expires <= m * time
  BY Times
<1> QED
  BY <1>1

\* A key that would be full by `expires' seen from now is full by then seen from
\* a clock that is not ahead.
LEMMA FullLater ==
    ASSUME NEW m \in Nat, NEW need \in Int, NEW expires \in Int, NEW time \in Nat,
           NEW clock \in Nat, clock <= time, need <= m * (expires - time)
    PROVE  need <= m * (expires - clock)
<1>1. expires - time \in Int /\ expires - clock \in Int /\ expires - time <= expires - clock
  OBVIOUS
<1>2. m * (expires - time) \in Int /\ m * (expires - clock) \in Int
      /\ m * (expires - time) <= m * (expires - clock)
  BY <1>1, Times
<1> QED
  BY <1>2

\* With something left, what was spent is below the refill, and the turns under
\* way add at most a call each.
LEMMA StakeFits ==
    ASSUME NEW m \in Nat, NEW cap \in Nat, NEW spent \in Int, NEW left \in Int,
           NEW clock \in Nat, NEW time \in Nat, NEW lateness \in Nat,
           NEW n \in Nat, NEW faults \in Nat, NEW price \in Nat, NEW stakes \in Nat,
           left + spent <= cap + m * (clock + lateness) + price * faults,
           left > 0, clock <= time, stakes <= n * price
    PROVE  spent + stakes < cap + m * (time + lateness) + price * (n + faults)
<1>1. /\ m * (clock + lateness) \in Int /\ m * (time + lateness) \in Int
      /\ m * (clock + lateness) <= m * (time + lateness)
  <2>1. /\ clock + lateness \in Int /\ time + lateness \in Int
        /\ clock + lateness <= time + lateness
    OBVIOUS
  <2> QED
    BY <2>1, Times
<1>2. /\ price * n \in Int /\ price * faults \in Int /\ n * price = price * n
      /\ price * (n + faults) = price * n + price * faults
  BY Times
<1> QED
  BY <1>1, <1>2

\* Sums of two numbers are ordered as they are.
LEMMA Plus ==
    ASSUME NEW i \in Nat, NEW j \in Nat, NEW k \in Nat, NEW l \in Nat, i <= k, j <= l
    PROVE  i + j \in Int /\ k + l \in Int /\ i + j <= k + l
  OBVIOUS

\* The numbers of the account of b, before and after a step.
LEMMA AccountTypes ==
    ASSUME LimitShapes, LimitShapes', NEW b \in Limits!Buckets
    PROVE  /\ now \in Nat /\ now' \in Nat /\ late \in Nat /\ late' \in Nat
           /\ outages \in Nat /\ outages' \in Nat /\ used[b] \in Nat /\ used'[b] \in Nat
           /\ Rate \in Nat /\ MaxCost \in Nat /\ MaxInFlight \in Nat
           /\ Limits!Capacity(b) \in Nat
           /\ Spent(b) \in Int /\ Spent(b)' \in Int
           /\ Stakes(b) \in Nat /\ Stakes(b)' \in Nat
           /\ MaxCost * outages \in Int /\ MaxCost * outages' \in Int
           /\ MaxCost * (outages' - outages) = MaxCost * outages' - MaxCost * outages
           /\ MaxCost * MaxInFlight \in Int
           /\ MaxCost * (MaxInFlight + outages) = MaxCost * MaxInFlight + MaxCost * outages
           /\ MaxCost * (MaxInFlight + outages') = MaxCost * MaxInFlight + MaxCost * outages'
<1>1. /\ now \in Nat /\ now' \in Nat /\ late \in Nat /\ late' \in Nat
      /\ outages \in Nat /\ outages' \in Nat /\ used[b] \in Nat /\ used'[b] \in Nat
  BY DEF LimitShapes
<1>2. /\ Rate \in Nat /\ MaxCost \in Nat /\ MaxInFlight \in Nat
      /\ Limits!Capacity(b) \in Nat
  BY Positive
<1>3. /\ Spent(b) \in Int /\ Spent(b)' \in Int /\ Stakes(b) \in Nat /\ Stakes(b)' \in Nat
  BY <1>1, SumTypes DEF Spent
<1>4. /\ MaxCost * outages \in Int /\ MaxCost * outages' \in Int
      /\ MaxCost * (outages' - outages) = MaxCost * outages' - MaxCost * outages
      /\ MaxCost * MaxInFlight \in Int
      /\ MaxCost * (MaxInFlight + outages) = MaxCost * MaxInFlight + MaxCost * outages
      /\ MaxCost * (MaxInFlight + outages') = MaxCost * MaxInFlight + MaxCost * outages'
  BY <1>1, <1>2, Times
<1> QED
  BY <1>1, <1>2, <1>3, <1>4

\* Refills only grow, with the time and with the lateness.
LEMMA RefillGrows ==
    ASSUME LimitShapes, LimitShapes', now <= now', late <= late'
    PROVE  /\ Rate * (now + late) \in Int /\ Rate * (now' + late') \in Int
           /\ Rate * (now + late) <= Rate * (now' + late')
<1>1. now + late \in Int /\ now' + late' \in Int /\ now + late <= now' + late'
  BY Plus DEF LimitShapes
<1> QED
  BY <1>1, Positive, Times

\* The stakes on b hold while a step puts no more at stake, but for what a
\* failure of Redis costs.
LEMMA StakedKept ==
    ASSUME LimitShapes, LimitShapes', NEW b \in Limits!Buckets, Staked(b),
           now <= now', late <= late', outages <= outages',
           Spent(b)' + Stakes(b)' <= Spent(b) + Stakes(b) + MaxCost * (outages' - outages)
    PROVE  Staked(b)'
  BY AccountTypes, RefillGrows DEF Staked

\* A step that spends nothing more of b, but for what a failure of Redis costs,
\* and leaves the bucket alone keeps its level.
LEMMA LevelKept ==
    ASSUME LimitShapes, LimitShapes', NEW b \in Limits!Buckets, Level(b),
           bucket'[b] = bucket[b], now <= now', late <= late', outages <= outages',
           Spent(b)' <= Spent(b) + MaxCost * (outages' - outages)
    PROVE  Level(b)'
<1>1. CASE bucket[b].stored
  <2>1. bucket[b].balance \in Int /\ bucket[b].at \in Nat /\ late \in Nat /\ late' \in Nat
    BY <1>1, StoredBuckets DEF LimitShapes
  <2>2. /\ Rate * (bucket[b].at + late) \in Int /\ Rate * (bucket[b].at + late') \in Int
        /\ Rate * (bucket[b].at + late) <= Rate * (bucket[b].at + late')
    <3>1. /\ bucket[b].at + late \in Int /\ bucket[b].at + late' \in Int
          /\ bucket[b].at + late <= bucket[b].at + late'
      BY <2>1
    <3> QED
      BY <3>1, Positive, Times
  <2>3. /\ bucket[b].balance + Spent(b)
             <= Limits!Capacity(b) + Rate * (bucket[b].at + late) + MaxCost * outages
        /\ Limits!Capacity(b) - bucket[b].balance <= Rate * (bucket[b].expires - bucket[b].at)
    BY <1>1 DEF Level
  <2>4. bucket[b].balance + Spent(b)'
          <= Limits!Capacity(b) + Rate * (bucket[b].at + late') + MaxCost * outages'
    BY <2>1, <2>2, <2>3, AccountTypes
  <2> QED
    BY <1>1, <2>3, <2>4 DEF Level
<1>2. CASE ~bucket[b].stored
  <2>1. Spent(b) <= Rate * (now + late) + MaxCost * outages
    BY <1>2 DEF Level
  <2>2. Spent(b)' <= Rate * (now' + late') + MaxCost * outages'
    BY <2>1, AccountTypes, RefillGrows
  <2> QED
    BY <1>2, <2>2 DEF Level
<1> QED
  BY <1>1, <1>2

\* A step of one turn that leaves the bucket alone, by what it adds to what was
\* used and what the turn owes and risks before and after.
LEMMA LedgerKept ==
    ASSUME LimitShapes, LimitShapes', NEW b \in Limits!Buckets, Level(b), Staked(b),
           NEW t \in Limits!Turns, NEW w, Shaped(w), turn' = [turn EXCEPT ![t] = w],
           bucket'[b] = bucket[b], now' = now, late <= late', outages <= outages',
           NEW more \in Nat, more = MaxCost * (outages' - outages),
           used'[b] + Owes(turn[t], b) <= used[b] + Owes(w, b) + more,
           used'[b] + Owes(turn[t], b) + Risks(w, b)
             <= used[b] + Owes(w, b) + Risks(turn[t], b) + more
    PROVE  Level(b)' /\ Staked(b)'
<1>1. /\ Debts(b)' = Debts(b) - Owes(turn[t], b) + Owes(w, b)
      /\ Stakes(b)' = Stakes(b) - Risks(turn[t], b) + Risks(w, b)
  BY SumsMove
<1>2. Shaped(turn[t])
  BY DEF LimitShapes
<1>3. /\ Owes(turn[t], b) \in 0..MaxCost /\ Owes(w, b) \in 0..MaxCost
      /\ Risks(turn[t], b) \in 0..MaxCost /\ Risks(w, b) \in 0..MaxCost
  BY <1>2, TurnNumbers
<1>4. /\ Owes(turn[t], b) \in Nat /\ Owes(w, b) \in Nat
      /\ Risks(turn[t], b) \in Nat /\ Risks(w, b) \in Nat
  BY <1>3, Positive
<1>5. /\ Debts(b) \in Nat /\ Debts(b)' \in Nat /\ Stakes(b) \in Nat /\ Stakes(b)' \in Nat
      /\ used[b] \in Nat /\ used'[b] \in Nat
  BY SumTypes, AccountTypes
<1>6. Spent(b) = used[b] - Debts(b) /\ Spent(b)' = used'[b] - Debts(b)'
  BY DEF Spent
<1>7. Spent(b)' <= Spent(b) + more
  BY <1>1, <1>4, <1>5, <1>6
<1>8. Spent(b)' + Stakes(b)' <= Spent(b) + Stakes(b) + more
  BY <1>1, <1>4, <1>5, <1>6
<1>9. now <= now'
  BY AccountTypes
<1> QED
  BY <1>7, <1>8, <1>9, LevelKept, StakedKept

-----------------------------------------------------------------------------
LimitsTypes == LimitShapes /\ LimitRanges

\* The types hold initially.
LEMMA LimitsTypesInit == ASSUME Limits!Init PROVE LimitsTypes
<1>1. Limits!NotStored.stored = FALSE
  BY DEF Limits!NotStored
<1>2. LimitShapes
  BY DEF Limits!Init, LimitShapes, Shaped
<1>3. LimitRanges
  BY <1>1, Positive DEF Limits!Init, LimitRanges, BucketFits, WindowFits
<1> QED
  BY <1>2, <1>3 DEF LimitsTypes

\* A step of one turn at a fixed time keeps the shape of the turns.
LEMMA TurnsShaped ==
    ASSUME LimitShapes, NEW t \in Limits!Turns, NEW w, Shaped(w),
           turn' = [turn EXCEPT ![t] = w], now' = now
    PROVE  /\ DOMAIN turn' = Limits!Turns /\ turn' = [q \in Limits!Turns |-> turn'[q]]
           /\ \A q \in Limits!Turns : Shaped(turn[q])'
<1>1. DOMAIN turn = Limits!Turns /\ \A q \in Limits!Turns : Shaped(turn[q])
  BY DEF LimitShapes
<1>2. \A q \in Limits!Turns : turn'[q] = IF q = t THEN w ELSE turn[q]
  BY <1>1
<1>3. \A q \in Limits!Turns : Shaped(turn'[q])
  BY <1>1, <1>2
<1>4. \A q \in Limits!Turns : Shaped(turn[q])'
  BY <1>3 DEF Shaped, Waiting, Charging
<1>5. DOMAIN turn' = Limits!Turns
  BY <1>1
<1>6. turn' = [q \in Limits!Turns |-> turn'[q]]
  BY <1>1
<1> QED
  BY <1>4, <1>5, <1>6

\* A window that is stored has its fields, and counts the turns asked.
LEMMA StoredWindows ==
    ASSUME LimitShapes, NEW c \in Conversations
    PROVE  /\ window[c].stored \in BOOLEAN
           /\ ~window[c].stored => window[c] = Limits!NotStored
           /\ window[c].stored =>
                /\ window[c] \in StoredWindow /\ window[c] # Limits!NotStored
                /\ window[c].turns \in Nat /\ window[c].expires \in Nat
<1>1. window[c] \in StoredWindow \/ window[c] = Limits!NotStored
  BY DEF LimitShapes
<1>2. CASE window[c] \in StoredWindow
  <2>1. /\ window[c].stored = TRUE /\ window[c].turns \in Nat /\ window[c].expires \in Nat
    BY <1>2 DEF StoredWindow
  <2>2. window[c] # Limits!NotStored
    BY <2>1 DEF Limits!NotStored
  <2> QED
    BY <1>2, <2>1, <2>2
<1>3. CASE window[c] = Limits!NotStored
  <2>1. window[c].stored = FALSE
    BY <1>3 DEF Limits!NotStored
  <2> QED
    BY <1>3, <2>1
<1> QED
  BY <1>1, <1>2, <1>3

\* One more turn in the window, which opens with the first.
LEMMA Counted ==
    ASSUME LimitsTypes, NEW c \in Conversations, NEW e, e = Limits!Count(c)
    PROVE  /\ e \in StoredWindow /\ 1 <= e.turns /\ e.turns <= asked + 1
           /\ now < e.expires /\ e.expires <= now + WINDOW
<1>1. now \in Nat /\ asked \in Nat /\ WINDOW \in Nat \ {0}
  BY Positive DEF LimitsTypes, LimitShapes
<1>2. CASE window[c].stored
  <2>1. window[c] \in StoredWindow /\ window[c].turns \in Nat
    BY <1>2, StoredWindows DEF LimitsTypes
  <2>2. e = [window[c] EXCEPT !.turns = @ + 1]
    BY <1>2 DEF Limits!Count
  <2>3. e \in StoredWindow /\ e.turns = window[c].turns + 1 /\ e.expires = window[c].expires
    <3>1. PICK n \in Nat : n = window[c].turns + 1
      BY <2>1
    <3>2. e = [window[c] EXCEPT !.turns = n]
      BY <2>2, <3>1
    <3> QED
      BY <2>1, <3>1, <3>2 DEF StoredWindow
  <2>4. /\ 1 <= window[c].turns /\ window[c].turns <= asked
        /\ now < window[c].expires /\ window[c].expires <= now + WINDOW
    BY <1>2 DEF LimitsTypes, LimitRanges, WindowFits
  <2> QED
    BY <1>1, <2>1, <2>3, <2>4
<1>3. CASE ~window[c].stored
  <2>1. e = [stored |-> TRUE, turns |-> 1, expires |-> now + WINDOW]
    BY <1>3 DEF Limits!Count
  <2>2. e \in StoredWindow /\ e.turns = 1 /\ e.expires = now + WINDOW
    BY <1>1, <2>1 DEF StoredWindow
  <2> QED
    BY <1>1, <2>2
<1> QED
  BY <1>2, <1>3

\* What a turn may settle: nothing but a bucket that is there or written now.
LEMMA KeptBucket ==
    ASSUME LimitsTypes, NEW t \in Limits!Turns, Charging(turn[t]),
           NEW s, s = Limits!Settled(Head(turn[t].left), turn[t].clock, turn[t].cost)
    PROVE  LET e == Limits!Kept(s) IN
             /\ e \in StoredBucket \cup {Limits!NotStored}
             /\ BucketFits(Head(turn[t].left), e)
<1> DEFINE h == Head(turn[t].left)
           e == Limits!Kept(s)
<1>0. LimitShapes /\ now \in Nat
  BY DEF LimitsTypes, LimitShapes
<1>1. h \in Limits!Buckets /\ turn[t].clock \in Nat /\ turn[t].cost \in Nat
                           /\ turn[t].clock <= now
  <2>1. turn[t].clock \in Nat /\ turn[t].cost \in 0..MaxCost /\ turn[t].clock <= now
    BY DEF Charging, Settlements
  <2>2. h \in Limits!Buckets
    BY SettlingLists
  <2> QED
    BY <2>1, <2>2, Positive
<1>2. /\ s.stored = TRUE /\ s.at = turn[t].clock /\ s.balance \in Int /\ s.expires \in Int
      /\ s = [stored |-> s.stored, balance |-> s.balance, at |-> s.at, expires |-> s.expires]
      /\ s.balance <= Limits!Capacity(h) - turn[t].cost
  <2>1. Written(h, turn[t].clock, turn[t].cost, s)
    BY <1>0, <1>1, SettledBucket
  <2> QED
    BY <2>1 DEF Written
<1>3. Limits!Capacity(h) \in Nat
  BY Positive
<1>4. CASE s.expires > now
  <2>1. e = s
    BY <1>4 DEF Limits!Kept
  <2>2. s.expires \in Nat
    BY <1>0, <1>1, <1>2, <1>4
  <2>3. s \in StoredBucket
    BY <1>1, <1>2, <2>2 DEF StoredBucket
  <2>4. s.balance <= Limits!Capacity(h)
    BY <1>1, <1>2, <1>3
  <2> QED
    BY <1>0, <1>1, <1>2, <1>4, <2>1, <2>3, <2>4 DEF BucketFits
<1>5. CASE ~(s.expires > now)
  <2>1. e = Limits!NotStored
    BY <1>5 DEF Limits!Kept
  <2>2. e.stored = FALSE
    BY <2>1 DEF Limits!NotStored
  <2> QED
    BY <2>1, <2>2 DEF BucketFits
<1> QED
  BY <1>4, <1>5

\* Every step of the limits keeps the types.
LEMMA LimitsTypesStep == ASSUME LimitsTypes, [Limits!Next]_limits PROVE LimitsTypes'
<1>0. LimitShapes /\ LimitRanges
  BY DEF LimitsTypes
<1>1. /\ now \in Nat /\ late \in Nat /\ outages \in Nat /\ asked \in Nat
      /\ now <= MaxTime /\ asked <= MaxTurns /\ MaxTime \in Nat /\ MaxTurns \in Nat
      /\ DOMAIN turn = Limits!Turns /\ turn = [t \in Limits!Turns |-> turn[t]]
      /\ \A t \in Limits!Turns : Shaped(turn[t])
      /\ bucket \in [Limits!Buckets -> StoredBucket \cup {Limits!NotStored}]
      /\ window \in [Conversations -> StoredWindow \cup {Limits!NotStored}]
      /\ used \in [Limits!Buckets -> Nat]
  BY <1>0, Positive DEF LimitShapes, LimitRanges
<1>2. /\ \A b \in Limits!Buckets : BucketFits(b, bucket[b])
      /\ \A c \in Conversations : WindowFits(window[c])
  BY <1>0 DEF LimitRanges
<1>3. ASSUME NEW t \in Limits!Turns, NEW w, Shaped(w), turn' = [turn EXCEPT ![t] = w],
             UNCHANGED now, late' \in Nat, outages' \in Nat,
             asked' \in Nat, asked' <= MaxTurns,
             bucket' \in [Limits!Buckets -> StoredBucket \cup {Limits!NotStored}],
             window' \in [Conversations -> StoredWindow \cup {Limits!NotStored}],
             used' \in [Limits!Buckets -> Nat],
             \A b \in Limits!Buckets : BucketFits(b, bucket'[b]),
             \A c \in Conversations : WindowFits(window[c])'
      PROVE  LimitsTypes'
  <2>1. /\ DOMAIN turn' = Limits!Turns /\ turn' = [q \in Limits!Turns |-> turn'[q]]
        /\ \A q \in Limits!Turns : Shaped(turn[q])'
    BY <1>0, <1>3, TurnsShaped
  <2>2. LimitShapes'
    BY <1>1, <1>3, <2>1 DEF LimitShapes
  <2>3. \A b \in Limits!Buckets : BucketFits(b, bucket[b])'
    BY <1>3 DEF BucketFits, Limits!Capacity
  <2> QED
    BY <1>1, <1>3, <2>2, <2>3 DEF LimitsTypes, LimitRanges
<1>4. ASSUME NEW t \in Limits!Turns, NEW w, Shaped(w), turn' = [turn EXCEPT ![t] = w],
             UNCHANGED <<now, bucket, window, late, asked>>, outages' \in Nat,
             used' \in [Limits!Buckets -> Nat]
      PROVE  LimitsTypes'
  <2>1. \A c \in Conversations : WindowFits(window[c])'
    BY <1>2, <1>4 DEF WindowFits
  <2> QED
    BY <1>1, <1>2, <1>3, <1>4, <2>1
<1>5. ASSUME NEW t \in Limits!Turns, NEW c \in Conversations, Limits!Ask(t, c)
      PROVE  LimitsTypes'
  <2> DEFINE e == Limits!Count(c)
             w == IF window'[c].turns <= MAX_TURNS THEN Limits!Settling("check", c, 0)
                  ELSE Limits!NoTurn
  <2>1. /\ e \in StoredWindow /\ 1 <= e.turns /\ e.turns <= asked + 1
        /\ now < e.expires /\ e.expires <= now + WINDOW
    BY Counted
  <2>2. Shaped(w)
    <3>1. 0 \in 0..MaxCost
      BY Positive
    <3>2. Shaped(Limits!Settling("check", c, 0))
      BY <1>0, <3>1, SettlingStarts
    <3> QED
      BY <3>2 DEF Shaped
  <2>3. /\ turn' = [turn EXCEPT ![t] = w] /\ window' = [window EXCEPT ![c] = e]
        /\ asked' = asked + 1 /\ asked < MaxTurns
        /\ UNCHANGED <<now, bucket, used, outages, late>>
    BY <1>5 DEF Limits!Ask
  <2> HIDE DEF e, w
  <2>4. /\ window' \in [Conversations -> StoredWindow \cup {Limits!NotStored}]
        /\ \A d \in Conversations : window'[d] = IF d = c THEN e ELSE window[d]
    BY <1>1, <2>1, <2>3
  <2>5. \A d \in Conversations : WindowFits(window[d])'
    <3>1. ASSUME NEW d \in Conversations, d # c, window[d].stored
          PROVE  /\ 1 <= window[d].turns /\ window[d].turns <= asked + 1
                 /\ now < window[d].expires /\ window[d].expires <= now + WINDOW
      <4>1. window[d].turns \in Nat
        BY <1>0, <3>1, StoredWindows
      <4> QED
        BY <1>1, <1>2, <3>1, <4>1 DEF WindowFits
    <3> QED
      BY <2>1, <2>3, <2>4, <3>1 DEF WindowFits
  <2>6. asked' \in Nat /\ asked' <= MaxTurns
    BY <1>1, <2>3
  <2> QED
    BY <1>1, <1>2, <1>3, <2>2, <2>3, <2>4, <2>5, <2>6
<1>6. ASSUME NEW t \in Limits!Turns, NEW c \in Conversations, Limits!AskUncounted(t, c)
      PROVE  LimitsTypes'
  <2> DEFINE w == Limits!Settling("check", c, 0)
  <2>1. 0 \in 0..MaxCost
    BY Positive
  <2>2. Shaped(w)
    BY <1>0, <2>1, SettlingStarts
  <2>3. /\ turn' = [turn EXCEPT ![t] = w] /\ asked' = asked + 1 /\ asked < MaxTurns
        /\ outages' = outages + 1 /\ UNCHANGED <<now, bucket, window, used, late>>
    BY <1>6 DEF Limits!AskUncounted
  <2> HIDE DEF w
  <2>4. \A d \in Conversations : WindowFits(window[d])'
    <3>1. ASSUME NEW d \in Conversations, window[d].stored
          PROVE  /\ 1 <= window[d].turns /\ window[d].turns <= asked + 1
                 /\ now < window[d].expires /\ window[d].expires <= now + WINDOW
      <4>1. window[d].turns \in Nat
        BY <1>0, <3>1, StoredWindows
      <4> QED
        BY <1>1, <1>2, <3>1, <4>1 DEF WindowFits
    <3> QED
      BY <2>3, <3>1 DEF WindowFits
  <2>5. asked' \in Nat /\ asked' <= MaxTurns /\ outages' \in Nat
    BY <1>1, <2>3
  <2> QED
    BY <1>1, <1>2, <1>3, <2>2, <2>3, <2>4, <2>5
<1>7. ASSUME NEW t \in Limits!Turns, Limits!Settle(t)
      PROVE  LimitsTypes'
  <2>1. Charging(turn[t])
    BY <1>1, <1>7, TurnKinds DEF Limits!Settle
  <2> DEFINE h == Head(turn[t].left)
             s == Limits!Settled(h, turn[t].clock, turn[t].cost)
             over == turn[t].over \/ s.balance <= 0
             w == Limits!AfterSettling(turn[t], over)
  <2>2. /\ h \in Limits!Buckets /\ turn[t].clock \in Nat /\ turn[t].clock <= now
        /\ turn[t].over \in BOOLEAN
    BY <2>1, SettlingLists DEF Charging, Settlements
  <2>3. over \in BOOLEAN /\ (turn[t].over => over)
    OBVIOUS
  <2>4. Shaped(w)
    <3>1. PICK o \in BOOLEAN : o = over
      BY <2>3
    <3>2. GoesOn(turn[t], o, h, Limits!AfterSettling(turn[t], o))
      BY <1>0, <2>1, <2>3, <3>1, SettlingGoesOn
    <3> QED
      BY <3>1, <3>2 DEF GoesOn
  <2>5. /\ Limits!Kept(s) \in StoredBucket \cup {Limits!NotStored}
        /\ BucketFits(h, Limits!Kept(s))
    BY <2>1, KeptBucket
  <2>6. /\ bucket' = [bucket EXCEPT ![h] = Limits!Kept(s)]
        /\ turn' = [turn EXCEPT ![t] = w]
        /\ late' = late + IF bucket[h].stored THEN 0 ELSE now - turn[t].clock
        /\ UNCHANGED <<now, window, asked, used, outages>>
    BY <1>7 DEF Limits!Settle
  <2> HIDE DEF h, s, over, w
  <2>7. /\ bucket' \in [Limits!Buckets -> StoredBucket \cup {Limits!NotStored}]
        /\ \A b \in Limits!Buckets : BucketFits(b, bucket'[b])
    <3>1. \A b \in Limits!Buckets : bucket'[b] = IF b = h THEN Limits!Kept(s) ELSE bucket[b]
      BY <1>1, <2>6
    <3> QED
      BY <1>1, <1>2, <2>2, <2>5, <2>6, <3>1
  <2>8. late' \in Nat
    BY <1>1, <2>2, <2>6
  <2>9. \A c \in Conversations : WindowFits(window[c])'
    BY <1>2, <2>6 DEF WindowFits
  <2> QED
    BY <1>1, <1>3, <2>4, <2>6, <2>7, <2>8, <2>9
<1>8. ASSUME NEW t \in Limits!Turns, Limits!RedisFails(t)
      PROVE  LimitsTypes'
  <2>1. Charging(turn[t])
    BY <1>1, <1>8, TurnKinds DEF Limits!RedisFails
  <2> DEFINE w == IF turn[t].step = "check" THEN Limits!InCall(turn[t].conversation)
                  ELSE Limits!NoTurn
  <2>2. Shaped(w)
    BY <2>1, CheckGivenUp DEF Shaped
  <2>3. /\ turn' = [turn EXCEPT ![t] = w] /\ outages' = outages + 1
        /\ UNCHANGED <<now, bucket, window, asked, used, late>>
    BY <1>8 DEF Limits!RedisFails
  <2> QED
    BY <1>1, <1>4, <2>2, <2>3
<1>9. ASSUME NEW t \in Limits!Turns, NEW cost \in 1..MaxCost, Limits!Called(t, cost)
      PROVE  LimitsTypes'
  <2>1. Waiting(turn[t])
    BY <1>1, <1>9, TurnKinds DEF Limits!Called
  <2> DEFINE w == Limits!Settling("debit", turn[t].conversation, cost)
  <2>2. Shaped(w)
    BY <1>0, <2>1, CallAnswered
  <2>3. /\ turn' = [turn EXCEPT ![t] = w]
        /\ UNCHANGED <<now, bucket, window, asked, outages, late>>
    BY <1>9 DEF Limits!Called
  <2>4. used' \in [Limits!Buckets -> Nat]
    BY <1>1, <1>9, Positive DEF Limits!Called
  <2> QED
    BY <1>1, <1>4, <2>2, <2>3, <2>4
<1>10. ASSUME NEW t \in Limits!Turns, Limits!CallFails(t)
       PROVE  LimitsTypes'
  <2>1. Shaped(Limits!NoTurn)
    BY DEF Shaped
  <2> QED
    BY <1>1, <1>4, <1>10, <2>1 DEF Limits!CallFails
<1>11. CASE Limits!Tick
  <2>1. /\ now' = now + 1 /\ now < MaxTime
        /\ bucket' = Limits!Expire(bucket) /\ window' = Limits!Expire(window)
        /\ UNCHANGED <<turn, asked, used, outages, late>>
    BY <1>11 DEF Limits!Tick
  <2>2. now' \in Nat /\ now' <= MaxTime /\ now <= now'
    BY <1>1, <2>1
  <2>3. \A t \in Limits!Turns : Shaped(turn[t])'
    <3>1. ASSUME NEW t \in Limits!Turns, Charging(turn[t]) PROVE Charging(turn[t])'
      <4>1. turn[t].clock \in Nat /\ turn[t].clock <= now
        BY <3>1 DEF Charging, Settlements
      <4>2. turn[t].clock <= now'
        BY <1>1, <2>2, <4>1
      <4> QED
        BY <2>1, <3>1, <4>2 DEF Charging
    <3> QED
      BY <1>1, <2>1, <3>1 DEF Shaped, Waiting
  <2>4. ASSUME NEW b \in Limits!Buckets
        PROVE  bucket'[b] \in StoredBucket \cup {Limits!NotStored} /\ BucketFits(b, bucket[b])'
    <3>1. bucket'[b] = IF bucket[b].stored /\ bucket[b].expires <= now' THEN Limits!NotStored
                       ELSE bucket[b]
      BY <1>1, <2>1 DEF Limits!Expire
    <3>2. CASE bucket[b].stored /\ ~(bucket[b].expires <= now')
      <4>1. bucket'[b] = bucket[b]
        BY <3>1, <3>2
      <4>2. bucket[b].expires \in Nat /\ bucket[b].at \in Nat
        BY <1>0, <3>2, StoredBuckets
      <4>3. bucket[b].balance <= Limits!Capacity(b) /\ bucket[b].at <= now
        BY <1>2, <3>2 DEF BucketFits
      <4>4. bucket[b].at <= now' /\ now' < bucket[b].expires
        BY <1>1, <2>2, <3>2, <4>2, <4>3
      <4> QED
        BY <1>1, <4>1, <4>3, <4>4 DEF BucketFits
    <3>3. CASE ~(bucket[b].stored /\ ~(bucket[b].expires <= now'))
      <4>1. bucket'[b] = Limits!NotStored
        BY <1>0, <3>1, <3>3, StoredBuckets
      <4>2. bucket'[b].stored = FALSE
        BY <4>1 DEF Limits!NotStored
      <4> QED
        BY <4>1, <4>2 DEF BucketFits
    <3> QED
      BY <3>2, <3>3
  <2>5. ASSUME NEW c \in Conversations
        PROVE  window'[c] \in StoredWindow \cup {Limits!NotStored} /\ WindowFits(window[c])'
    <3>1. window'[c] = IF window[c].stored /\ window[c].expires <= now' THEN Limits!NotStored
                       ELSE window[c]
      BY <1>1, <2>1 DEF Limits!Expire
    <3>2. CASE window[c].stored /\ ~(window[c].expires <= now')
      <4>1. window'[c] = window[c]
        BY <3>1, <3>2
      <4>2. window[c].expires \in Nat
        BY <1>0, <3>2, StoredWindows
      <4>3. /\ 1 <= window[c].turns /\ window[c].turns <= asked
            /\ window[c].expires <= now + WINDOW
        BY <1>2, <3>2 DEF WindowFits
      <4>4. now' < window[c].expires /\ window[c].expires <= now' + WINDOW
        BY <1>1, <2>1, <2>2, <3>2, <4>2, <4>3, Positive
      <4> QED
        BY <1>1, <2>1, <4>1, <4>3, <4>4 DEF WindowFits
    <3>3. CASE ~(window[c].stored /\ ~(window[c].expires <= now'))
      <4>1. window'[c] = Limits!NotStored
        BY <1>0, <3>1, <3>3, StoredWindows
      <4>2. window'[c].stored = FALSE
        BY <4>1 DEF Limits!NotStored
      <4> QED
        BY <4>1, <4>2 DEF WindowFits
    <3> QED
      BY <3>2, <3>3
  <2>6. /\ bucket' \in [Limits!Buckets -> StoredBucket \cup {Limits!NotStored}]
        /\ window' \in [Conversations -> StoredWindow \cup {Limits!NotStored}]
    <3>1. /\ bucket' = [b \in Limits!Buckets |-> bucket'[b]]
          /\ window' = [c \in Conversations |-> window'[c]]
      BY <1>1, <2>1 DEF Limits!Expire
    <3> QED
      BY <2>4, <2>5, <3>1
  <2>7. LimitShapes'
    BY <1>1, <2>1, <2>2, <2>3, <2>6 DEF LimitShapes
  <2>8. LimitRanges'
    BY <1>1, <2>1, <2>2, <2>4, <2>5 DEF LimitRanges
  <2> QED
    BY <2>7, <2>8 DEF LimitsTypes
<1>12. CASE UNCHANGED limits
  <2>1. UNCHANGED <<now, bucket, window, turn, asked, used, outages, late>>
    BY <1>12 DEF limits
  <2>2. LimitShapes'
    BY <1>0, <2>1 DEF LimitShapes, Shaped, Waiting, Charging
  <2>3. LimitRanges'
    BY <1>0, <2>1 DEF LimitRanges, BucketFits, WindowFits
  <2> QED
    BY <2>2, <2>3 DEF LimitsTypes
<1> QED
  BY <1>5, <1>6, <1>7, <1>8, <1>9, <1>10, <1>11, <1>12 DEF Limits!Next

\* The types hold throughout.
LEMMA LimitsTypesHold == Spec => []LimitsTypes
<1>1. Init => LimitsTypes
  BY LimitsFollowed, LimitsTypesInit
<1>2. LimitsTypes /\ [Next]_vars => LimitsTypes'
  BY LimitsFollowed, LimitsTypesStep
<1> QED
  BY <1>1, <1>2, PTL DEF Spec

\* The agent's buckets, windows and turns keep their types, no bucket holds more
\* than its capacity or is settled ahead of the clock, and no key outlives its
\* time (TokenBudget, AgentRateLimiter).
THEOREM LimitsTyped == Spec => []Limits!TypeOK
<1>1. ASSUME LimitsTypes PROVE Limits!TypeOK
  <2>0. LimitShapes /\ LimitRanges
    BY <1>1 DEF LimitsTypes
  <2>1. ASSUME NEW b \in Limits!Buckets, bucket[b] # Limits!NotStored
        PROVE  /\ bucket[b].balance <= Limits!Capacity(b) /\ bucket[b].at <= now
               /\ bucket[b].expires > now
    <3>1. bucket[b].stored
      BY <2>0, <2>1, StoredBuckets
    <3>2. bucket[b].expires \in Nat /\ now \in Nat
      BY <2>0, <3>1, StoredBuckets DEF LimitShapes
    <3> QED
      BY <2>0, <3>1, <3>2 DEF LimitRanges, BucketFits
  <2>2. ASSUME NEW c \in Conversations, window[c] # Limits!NotStored
        PROVE  /\ window[c].turns \in 1..MaxTurns
               /\ window[c].expires \in (now + 1)..(now + WINDOW)
    <3>1. window[c].stored
      BY <2>0, <2>2, StoredWindows
    <3>2. /\ window[c].turns \in Nat /\ window[c].expires \in Nat
          /\ now \in Nat /\ asked \in Nat /\ asked <= MaxTurns
          /\ MaxTurns \in Nat /\ WINDOW \in Nat
      BY <2>0, <3>1, StoredWindows, Positive DEF LimitShapes, LimitRanges
    <3>3. /\ 1 <= window[c].turns /\ window[c].turns <= asked
          /\ now < window[c].expires /\ window[c].expires <= now + WINDOW
      BY <2>0, <3>1 DEF LimitRanges, WindowFits
    <3> QED
      BY <3>2, <3>3
  <2>3. now \in 0..MaxTime /\ asked \in 0..MaxTurns /\ used \in [Limits!Buckets -> Nat]
    BY <2>0, Positive DEF LimitShapes, LimitRanges
  <2> QED
    BY <2>1, <2>2, <2>3 DEF Limits!TypeOK
<1> QED
  BY <1>1, LimitsTypesHold, PTL

-----------------------------------------------------------------------------
\* Initially nothing is spent and nothing at stake.
LEMMA LedgerInit == ASSUME Limits!Init PROVE Ledger
<1>1. LimitShapes
  BY LimitsTypesInit DEF LimitsTypes
<1>2. ASSUME NEW b \in Limits!Buckets PROVE Level(b) /\ Staked(b)
  <2>1. /\ bucket[b] = Limits!NotStored /\ used[b] = 0 /\ now = 0 /\ late = 0 /\ outages = 0
    BY <1>2 DEF Limits!Init
  <2>2. bucket[b].stored = FALSE
    BY <2>1 DEF Limits!NotStored
  <2>3. Debts(b) \in Nat /\ Stakes(b) \in Nat /\ Stakes(b) <= MaxInFlight * MaxCost
    BY TotalType DEF Debts, Stakes
  <2>4. /\ MaxInFlight \in Nat /\ MaxCost \in Nat /\ Rate \in Nat
        /\ Limits!Capacity(b) \in Nat \ {0}
        /\ MaxInFlight * MaxCost = MaxCost * MaxInFlight /\ MaxCost * MaxInFlight \in Nat
        /\ Rate * (0 + 0) = 0 /\ MaxCost * 0 = 0 /\ MaxInFlight + 0 = MaxInFlight
    BY Positive
  <2>5. Spent(b) \in Int /\ Spent(b) <= 0
    BY <2>1, <2>3 DEF Spent
  <2>6. Level(b)
    BY <2>1, <2>2, <2>4, <2>5 DEF Level
  <2>7. Staked(b)
    <3>1. /\ Rate * (now + late) = 0 /\ MaxInFlight + outages = MaxInFlight
      BY <2>1, <2>4
    <3>2. Spent(b) + Stakes(b) < Limits!Capacity(b) + 0 + MaxCost * MaxInFlight
      BY <2>3, <2>4, <2>5
    <3> QED
      BY <3>1, <3>2 DEF Staked
  <2> QED
    BY <2>6, <2>7
<1> QED
  BY <1>2 DEF Ledger

\* What settling the first bucket of turn t does, as far as the account of that
\* bucket goes.
SettlesTo(t, h, over, s) ==
    /\ h = Head(turn[t].left) /\ s = Limits!Settled(h, turn[t].clock, turn[t].cost)
    /\ over = (turn[t].over \/ s.balance <= 0)
    /\ turn' = [turn EXCEPT ![t] = Limits!AfterSettling(turn[t], over)]
    /\ bucket'[h] = Limits!Kept(s)
    /\ late' = late + IF bucket[h].stored THEN 0 ELSE now - turn[t].clock
    /\ UNCHANGED <<now, used, outages>>

\* The clock of a settlement that meets no bucket may be late.
Late(h, clock) == late' = late + IF bucket[h].stored THEN 0 ELSE now - clock

\* The numbers of a settlement.
LEMMA SettlingNumbers ==
    ASSUME LimitShapes, LimitShapes', NEW h \in Limits!Buckets,
           NEW clock \in Nat, clock <= now, Late(h, clock)
    PROVE  /\ now \in Nat /\ late \in Nat /\ late' \in Nat /\ late <= late'
           /\ Rate \in Nat /\ MaxCost \in Nat /\ MaxInFlight \in Nat /\ outages \in Nat
           /\ Limits!Capacity(h) \in Nat /\ MaxCost * outages \in Int
<1>1. late <= late'
  <2>1. now \in Nat /\ late \in Nat
    BY AccountTypes
  <2> QED
    BY <2>1 DEF Late
<1> QED
  BY <1>1, AccountTypes

\* What a settled bucket holds and what was spent of it.
LEMMA LevelSettled ==
    ASSUME LimitShapes, LimitShapes', NEW h \in Limits!Buckets, Level(h),
           NEW clock \in Nat, NEW cost \in Nat, NEW s, clock <= now,
           Written(h, clock, cost, s), bucket'[h] = Limits!Kept(s), Late(h, clock),
           now' = now, outages' = outages,
           Spent(h) \in Int, Spent(h)' \in Int, Spent(h)' = Spent(h) + cost
    PROVE  /\ Level(h)'
           /\ s.balance + Spent(h)'
                <= Limits!Capacity(h) + Rate * (clock + late') + MaxCost * outages
<1>1. /\ s.stored = TRUE /\ s.at = clock /\ s.balance \in Int /\ s.expires \in Int
      /\ s.balance <= Limits!Capacity(h) - cost
      /\ bucket[h].stored =>
           s.balance <= (bucket[h].balance + (clock - bucket[h].at) * Rate) - cost
      /\ Limits!Capacity(h) - s.balance <= Rate * (s.expires - now)
  BY DEF Written
<1>2. /\ now \in Nat /\ late \in Nat /\ late' \in Nat /\ late <= late'
       /\ Rate \in Nat /\ outages \in Nat
       /\ Limits!Capacity(h) \in Nat /\ MaxCost * outages \in Int
  BY SettlingNumbers
<1>3. s.balance + Spent(h)'
         <= Limits!Capacity(h) + Rate * (clock + late') + MaxCost * outages
  <2>1. CASE bucket[h].stored
    <3>1. late' = late
      BY <1>2, <2>1 DEF Late
    <3>2. bucket[h].balance \in Int /\ bucket[h].at \in Nat
      BY <2>1, StoredBuckets
    <3>3. bucket[h].balance + Spent(h)
            <= Limits!Capacity(h) + Rate * (bucket[h].at + late) + MaxCost * outages
      BY <2>1 DEF Level
    <3>4. s.balance <= (bucket[h].balance + (clock - bucket[h].at) * Rate) - cost
      BY <1>1, <2>1
    <3>5. s.balance + (Spent(h) + cost)
            <= Limits!Capacity(h) + Rate * (clock + late) + MaxCost * outages
      BY <1>1, <1>2, <3>2, <3>3, <3>4, SettleStored
    <3> QED
      BY <3>1, <3>5
  <2>2. CASE ~bucket[h].stored
    <3>1. late' = late + (now - clock)
      BY <2>2 DEF Late
    <3>2. Spent(h) <= Rate * (now + late) + MaxCost * outages
      BY <2>2 DEF Level
    <3>3. s.balance + (Spent(h) + cost)
            <= Limits!Capacity(h) + Rate * (clock + (late + (now - clock))) + MaxCost * outages
      BY <1>1, <1>2, <3>2, SettleMissing
    <3> QED
      BY <3>1, <3>3
  <2> QED
    BY <2>1, <2>2
<1>4. Limits!Capacity(h) - s.balance <= Rate * (s.expires - clock)
  <2>1. Limits!Capacity(h) - s.balance \in Int
    BY <1>1, <1>2
  <2> QED
    BY <1>1, <1>2, <2>1, FullLater
<1>5. Level(h)'
  <2>1. CASE s.expires > now
    <3>1. bucket'[h] = s
      BY <2>1 DEF Limits!Kept
    <3> QED
      BY <1>1, <1>3, <1>4, <3>1 DEF Level, Limits!Capacity
  <2>2. CASE ~(s.expires > now)
    <3>1. bucket'[h] = Limits!NotStored
      BY <2>2 DEF Limits!Kept
    <3>2. bucket'[h].stored = FALSE
      BY <3>1 DEF Limits!NotStored
    <3>3. s.expires <= now
      BY <1>1, <1>2, <2>2
    <3>4. Spent(h)' <= Rate * (now + late') + MaxCost * outages
      BY <1>1, <1>2, <1>3, <1>4, <3>3, ReadsFull
    <3> QED
      BY <3>2, <3>4 DEF Level
  <2> QED
    BY <2>1, <2>2
<1> QED
  BY <1>3, <1>5

\* The bucket that a turn settles: the cost moves from what the turn owes to what
\* was spent, and a check that finds something left may stake a call on it.
LEMMA LedgerSettled ==
    ASSUME LimitsTypes, LimitsTypes', NEW t \in Limits!Turns, Charging(turn[t]),
           NEW h \in Limits!Buckets, Level(h), Staked(h),
           NEW s, NEW over \in BOOLEAN, SettlesTo(t, h, over, s)
    PROVE  Level(h)' /\ Staked(h)'
<1> DEFINE w == Limits!AfterSettling(turn[t], over)
<1>1. /\ LimitShapes /\ LimitShapes' /\ h = Head(turn[t].left)
      /\ turn' = [turn EXCEPT ![t] = w]
      /\ bucket'[h] = Limits!Kept(s) /\ now' = now /\ used' = used /\ outages' = outages
  BY DEF LimitsTypes, SettlesTo
<1>2. PICK clock \in Nat, cost \in Nat : clock = turn[t].clock /\ cost = turn[t].cost
  BY Positive DEF Charging, Settlements
<1>3. /\ clock <= now /\ turn[t].step \in {"check", "debit"}
      /\ turn[t].step = "check" => cost = 0
  BY <1>2 DEF Charging, Settlements
<1>4. Written(h, clock, cost, s) /\ Late(h, clock)
  <2>1. s = Limits!Settled(h, clock, cost)
    BY <1>2 DEF SettlesTo
  <2> QED
    BY <1>1, <1>2, <2>1, SettledBucket DEF SettlesTo, Late
<1>5. /\ Shaped(w) /\ Owes(w, h) = 0 /\ Owes(turn[t], h) = cost
      /\ (over \/ turn[t].step = "debit" => Risks(w, h) = 0)
  <2>1. turn[t].over => over
    BY DEF SettlesTo
  <2>2. GoesOn(turn[t], over, h, w)
    BY <1>1, <2>1, SettlingGoesOn
  <2> QED
    BY <1>2, <2>2 DEF GoesOn
<1> HIDE DEF w
<1>6. Risks(turn[t], h) = cost
  <2>1. CASE turn[t].step = "debit"
    BY <1>5, <2>1, TurnNumbers DEF Shaped
  <2>2. CASE turn[t].step = "check"
    <3>1. In(h, turn[t].left)
      BY <1>1, SettlingLists
    <3>2. ~Passed(turn[t], h)
      BY <2>2, <3>1 DEF Passed
    <3> QED
      BY <1>5, <3>2 DEF Risks
  <2> QED
    BY <1>3, <2>1, <2>2
<1>7. /\ Debts(h)' = Debts(h) - cost + 0
      /\ Stakes(h)' = Stakes(h) - cost + Risks(w, h)
  <2>1. /\ Debts(h)' = Debts(h) - Owes(turn[t], h) + Owes(w, h)
        /\ Stakes(h)' = Stakes(h) - Risks(turn[t], h) + Risks(w, h)
    BY <1>1, <1>5, SumsMove
  <2> QED
    BY <1>5, <1>6, <2>1
<1>8. /\ Debts(h) \in Nat /\ Debts(h)' \in Nat /\ Stakes(h) \in Nat /\ Stakes(h)' \in Nat
      /\ Stakes(h)' <= MaxInFlight * MaxCost
  BY SumTypes
<1>9. Spent(h) \in Int /\ Spent(h)' \in Int /\ Spent(h)' = Spent(h) + cost
  <2>1. used[h] \in Nat
    BY <1>1, AccountTypes
  <2>2. Spent(h) = used[h] - Debts(h) /\ Spent(h)' = used[h] - Debts(h)'
    BY <1>1 DEF Spent
  <2> QED
    BY <1>7, <1>8, <2>1, <2>2
<1>10. /\ now \in Nat /\ late \in Nat /\ late' \in Nat /\ late <= late'
       /\ Rate \in Nat /\ MaxCost \in Nat /\ MaxInFlight \in Nat /\ outages \in Nat
       /\ Limits!Capacity(h) \in Nat /\ MaxCost * outages \in Int
  BY <1>1, <1>3, <1>4, SettlingNumbers
<1>11. /\ Level(h)'
       /\ s.balance + Spent(h)'
            <= Limits!Capacity(h) + Rate * (clock + late') + MaxCost * outages
  BY <1>1, <1>3, <1>4, <1>9, LevelSettled
<1>12. Staked(h)'
  <2>1. CASE over \/ turn[t].step = "debit"
    <3>1. Spent(h)' + Stakes(h)' <= Spent(h) + Stakes(h)
      BY <1>5, <1>7, <1>8, <1>9, <2>1
    <3>2. MaxCost * (outages' - outages) = 0 /\ now <= now' /\ outages <= outages'
      BY <1>1, <1>10
    <3>3. Spent(h)' + Stakes(h)' <= Spent(h) + Stakes(h) + MaxCost * (outages' - outages)
      BY <1>8, <1>9, <3>1, <3>2
    <3> QED
      BY <1>1, <1>10, <3>2, <3>3, StakedKept
  <2>2. CASE ~over
    <3>1. s.balance \in Int /\ s.balance > 0
      <4>1. ~(s.balance <= 0)
        BY <2>2, Zenon DEF SettlesTo
      <4>2. s.balance \in Int
        BY <1>4 DEF Written
      <4> QED
        BY <4>1, <4>2
    <3>2. Spent(h)' + Stakes(h)'
            < Limits!Capacity(h) + Rate * (now + late') + MaxCost * (MaxInFlight + outages)
      BY <1>3, <1>8, <1>9, <1>10, <1>11, <3>1, StakeFits
    <3> QED
      BY <1>1, <3>2 DEF Staked, Limits!Capacity
  <2> QED
    BY <2>1, <2>2
<1> QED
  BY <1>11, <1>12

\* Every step keeps the ledger: it moves money between what is held, owed and at
\* stake, or counts an outage, a tick or lateness on the other side.
LEMMA LedgerStep ==
    ASSUME LimitsTypes, LimitsTypes', Ledger, [Limits!Next]_limits
    PROVE  Ledger'
<1> SUFFICES ASSUME NEW b \in Limits!Buckets PROVE Level(b)' /\ Staked(b)'
  BY DEF Ledger, Limits!Buckets
<1>0. LimitShapes /\ LimitShapes' /\ Level(b) /\ Staked(b)
  BY DEF LimitsTypes, Ledger
<1>1. /\ now \in Nat /\ late \in Nat /\ outages \in Nat /\ used[b] \in Nat
      /\ \A t \in Limits!Turns : Shaped(turn[t])
      /\ MaxCost \in Nat /\ 0 \in 0..MaxCost /\ MaxCost * 1 = MaxCost /\ MaxCost * 0 = 0
      /\ used \in [Limits!Buckets -> Nat]
      /\ bucket \in [Limits!Buckets -> StoredBucket \cup {Limits!NotStored}]
  BY <1>0, Positive DEF LimitShapes
<1>2. ASSUME NEW t \in Limits!Turns, NEW w, Shaped(w), turn' = [turn EXCEPT ![t] = w],
             UNCHANGED <<bucket, now, late>>,
             \/ UNCHANGED <<outages, used>> /\ Owes(turn[t], b) = Owes(w, b)
                                            /\ Risks(w, b) <= Risks(turn[t], b)
             \/ /\ outages' = outages + 1 /\ UNCHANGED used
                /\ Owes(turn[t], b) = Owes(w, b)
                /\ Risks(w, b) <= Risks(turn[t], b) + MaxCost
             \/ /\ outages' = outages + 1 /\ UNCHANGED used
                /\ Owes(turn[t], b) = Risks(turn[t], b) /\ Owes(w, b) = Risks(w, b)
                /\ Owes(w, b) = 0
             \/ /\ UNCHANGED outages /\ Owes(turn[t], b) = 0
                /\ used'[b] = used[b] + Owes(w, b)
                /\ Risks(w, b) <= Risks(turn[t], b)
      PROVE  Level(b)' /\ Staked(b)'
  <2>1. /\ Owes(turn[t], b) \in Nat /\ Owes(w, b) \in Nat /\ Owes(turn[t], b) <= MaxCost
        /\ Risks(turn[t], b) \in Nat /\ Risks(w, b) \in Nat
    <3>1. /\ Owes(turn[t], b) \in 0..MaxCost /\ Owes(w, b) \in 0..MaxCost
          /\ Risks(turn[t], b) \in 0..MaxCost /\ Risks(w, b) \in 0..MaxCost
      BY <1>1, <1>2, TurnNumbers
    <3> QED
      BY <1>1, <3>1
  <2>2. outages' - outages = 0 \/ outages' - outages = 1
    BY <1>1, <1>2
  <2>3. PICK more \in Nat : more = MaxCost * (outages' - outages)
    BY <1>1, <2>2
  <2>4. (outages' = outages => more = 0) /\ (outages' = outages + 1 => more = MaxCost)
    BY <1>1, <2>3
  <2>5. /\ used'[b] + Owes(turn[t], b) <= used[b] + Owes(w, b) + more
        /\ used'[b] + Owes(turn[t], b) + Risks(w, b)
             <= used[b] + Owes(w, b) + Risks(turn[t], b) + more
    BY <1>1, <1>2, <2>1, <2>4
  <2>6. bucket'[b] = bucket[b] /\ now' = now /\ late <= late' /\ outages <= outages'
    BY <1>1, <1>2
  <2> QED
    BY <1>0, <1>2, <2>3, <2>5, <2>6, LedgerKept
<1>3. ASSUME NEW t \in Limits!Turns, NEW c \in Conversations, Limits!Ask(t, c)
      PROVE  Level(b)' /\ Staked(b)'
  <2> DEFINE w == IF window'[c].turns <= MAX_TURNS THEN Limits!Settling("check", c, 0)
                  ELSE Limits!NoTurn
  <2>1. Shaped(w) /\ Owes(w, b) = 0 /\ Risks(w, b) = 0
    <3>1. CASE w = Limits!Settling("check", c, 0)
      BY <1>0, <1>1, <3>1, SettlingStarts
    <3>2. CASE w = Limits!NoTurn
      BY <3>2, TurnNumbers DEF Shaped
    <3> QED
      BY <3>1, <3>2
  <2>2. /\ turn[t] = Limits!NoTurn /\ turn' = [turn EXCEPT ![t] = w]
        /\ UNCHANGED <<now, bucket, used, outages, late>>
    BY <1>3 DEF Limits!Ask, Limits!Free
  <2>3. Owes(turn[t], b) = 0 /\ Risks(turn[t], b) = 0
    BY <2>2, TurnNumbers DEF Shaped
  <2> HIDE DEF w
  <2>4. Owes(turn[t], b) = Owes(w, b) /\ Risks(w, b) <= Risks(turn[t], b)
    BY <2>1, <2>3
  <2> QED
    BY <1>2, <2>1, <2>2, <2>4
<1>4. ASSUME NEW t \in Limits!Turns, NEW c \in Conversations, Limits!AskUncounted(t, c)
      PROVE  Level(b)' /\ Staked(b)'
  <2> DEFINE w == Limits!Settling("check", c, 0)
  <2>1. Shaped(w) /\ Owes(w, b) = 0 /\ Risks(w, b) = 0
    BY <1>0, <1>1, SettlingStarts
  <2>2. /\ turn[t] = Limits!NoTurn /\ turn' = [turn EXCEPT ![t] = w]
        /\ outages' = outages + 1 /\ UNCHANGED <<now, bucket, used, late>>
    BY <1>4 DEF Limits!AskUncounted, Limits!Free
  <2>3. Owes(turn[t], b) = 0 /\ Risks(turn[t], b) = 0
    BY <2>2, TurnNumbers DEF Shaped
  <2> HIDE DEF w
  <2>4. Owes(turn[t], b) = Risks(turn[t], b) /\ Owes(w, b) = Risks(w, b) /\ Owes(w, b) = 0
    BY <2>1, <2>3
  <2> QED
    BY <1>2, <2>1, <2>2, <2>4
<1>5. ASSUME NEW t \in Limits!Turns, Limits!Settle(t)
      PROVE  Level(b)' /\ Staked(b)'
  <2>1. Charging(turn[t])
    BY <1>1, <1>5, TurnKinds DEF Limits!Settle
  <2> DEFINE h == Head(turn[t].left)
             s == Limits!Settled(h, turn[t].clock, turn[t].cost)
             over == turn[t].over \/ s.balance <= 0
             w == Limits!AfterSettling(turn[t], over)
  <2>2. h \in Limits!Buckets
    BY <2>1, SettlingLists
  <2>3. over \in BOOLEAN /\ (turn[t].over => over)
    OBVIOUS
  <2>4. /\ bucket' = [bucket EXCEPT ![h] = Limits!Kept(s)]
        /\ turn' = [turn EXCEPT ![t] = w]
        /\ late' = late + IF bucket[h].stored THEN 0 ELSE now - turn[t].clock
        /\ UNCHANGED <<now, window, asked, used, outages>>
    BY <1>5 DEF Limits!Settle
  <2>5. CASE b = h
    <3>1. PICK o \in BOOLEAN : o = over
      BY <2>3
    <3>2. turn' = [turn EXCEPT ![t] = Limits!AfterSettling(turn[t], o)]
      BY <2>4, <3>1
    <3>3. bucket'[b] = Limits!Kept(s)
      BY <1>1, <2>4, <2>5
    <3>4. /\ late' = late + IF bucket[b].stored THEN 0 ELSE now - turn[t].clock
          /\ UNCHANGED <<now, used, outages>>
      BY <2>4, <2>5
    <3>5. s = Limits!Settled(b, turn[t].clock, turn[t].cost) /\ b = Head(turn[t].left)
      BY <2>5
    <3>6. o = (turn[t].over \/ s.balance <= 0)
      BY <3>1
    <3> HIDE DEF h, s, over, w
    <3>7. SettlesTo(t, b, o, s)
      BY <3>2, <3>3, <3>4, <3>5, <3>6 DEF SettlesTo
    <3> QED
      BY <1>0, <2>1, <3>7, LedgerSettled
  <2>6. CASE b # h
    <3>1. /\ Shaped(w) /\ Owes(w, b) = Owes(turn[t], b) /\ Risks(w, b) <= Risks(turn[t], b)
      <4>1. PICK o \in BOOLEAN : o = over
        BY <2>3
      <4>2. GoesOn(turn[t], o, h, Limits!AfterSettling(turn[t], o))
        BY <1>0, <2>1, <2>3, <4>1, SettlingGoesOn
      <4> QED
        BY <2>6, <4>1, <4>2 DEF GoesOn
    <3> HIDE DEF s, over, w
    <3>2. bucket'[b] = bucket[b]
      BY <1>1, <2>4, <2>6
    <3>3. late <= late'
      <4>1. turn[t].clock \in Nat /\ turn[t].clock <= now
        BY <2>1 DEF Charging, Settlements
      <4> QED
        BY <1>1, <2>4, <4>1
    <3>4. PICK more \in Nat : more = 0
      OBVIOUS
    <3>5. more = MaxCost * (outages' - outages)
      BY <1>1, <2>4, <3>4
    <3>6. /\ Owes(turn[t], b) \in Nat /\ Risks(turn[t], b) \in Nat /\ Risks(w, b) \in Nat
      <4>1. /\ Owes(turn[t], b) \in 0..MaxCost /\ Risks(turn[t], b) \in 0..MaxCost
            /\ Risks(w, b) \in 0..MaxCost
        BY <1>1, <3>1, TurnNumbers
      <4> QED
        BY <1>1, <4>1
    <3>7. /\ used'[b] + Owes(turn[t], b) <= used[b] + Owes(w, b) + more
          /\ used'[b] + Owes(turn[t], b) + Risks(w, b)
               <= used[b] + Owes(w, b) + Risks(turn[t], b) + more
      BY <1>1, <2>4, <3>1, <3>4, <3>6
    <3>8. now' = now /\ outages <= outages' /\ turn' = [turn EXCEPT ![t] = w]
      BY <1>1, <2>4
    <3> QED
      BY <1>0, <3>1, <3>2, <3>3, <3>5, <3>7, <3>8, LedgerKept
  <2> QED
    BY <2>5, <2>6
<1>6. ASSUME NEW t \in Limits!Turns, Limits!RedisFails(t)
      PROVE  Level(b)' /\ Staked(b)'
  <2>1. Charging(turn[t])
    BY <1>1, <1>6, TurnKinds DEF Limits!RedisFails
  <2> DEFINE w == IF turn[t].step = "check" THEN Limits!InCall(turn[t].conversation)
                  ELSE Limits!NoTurn
  <2>2. /\ turn' = [turn EXCEPT ![t] = w] /\ outages' = outages + 1
        /\ UNCHANGED <<now, bucket, used, late>>
        /\ turn[t].step \in {"check", "debit"}
    BY <1>6 DEF Limits!RedisFails
  <2>3. CASE turn[t].step = "check"
    <3>1. /\ Shaped(w) /\ Owes(w, b) = 0 /\ Owes(turn[t], b) = 0
          /\ Risks(w, b) <= Risks(turn[t], b) + MaxCost
      BY <2>1, <2>3, CheckGivenUp
    <3> HIDE DEF w
    <3> QED
      BY <1>2, <2>2, <3>1
  <2>4. CASE turn[t].step = "debit"
    <3>1. w = Limits!NoTurn
      BY <2>4
    <3>2. Shaped(w) /\ Owes(w, b) = 0 /\ Risks(w, b) = 0
      BY <3>1, TurnNumbers DEF Shaped
    <3>3. Risks(turn[t], b) = Owes(turn[t], b)
      BY <1>1, <2>4, TurnNumbers
    <3> HIDE DEF w
    <3> QED
      BY <1>2, <2>2, <3>2, <3>3
  <2> QED
    BY <2>2, <2>3, <2>4
<1>7. ASSUME NEW t \in Limits!Turns, NEW cost \in 1..MaxCost, Limits!Called(t, cost)
      PROVE  Level(b)' /\ Staked(b)'
  <2>1. Waiting(turn[t])
    BY <1>1, <1>7, TurnKinds DEF Limits!Called
  <2> DEFINE c == turn[t].conversation
             w == Limits!Settling("debit", c, cost)
  <2>2. /\ Shaped(w) /\ Owes(turn[t], b) = 0 /\ Risks(w, b) <= Risks(turn[t], b)
        /\ Owes(w, b) = IF In(b, Limits!BucketsOf(c)) THEN cost ELSE 0
    BY <1>0, <2>1, CallAnswered
  <2>3. /\ turn' = [turn EXCEPT ![t] = w]
        /\ UNCHANGED <<now, bucket, outages, late>>
    BY <1>7 DEF Limits!Called
  <2>4. used'[b] = used[b] + IF b \in {Limits!BucketsOf(c)[i] : i \in DOMAIN Limits!BucketsOf(c)}
                             THEN cost ELSE 0
    BY <1>7 DEF Limits!Called
  <2>5. b \in {Limits!BucketsOf(c)[i] : i \in DOMAIN Limits!BucketsOf(c)}
          <=> In(b, Limits!BucketsOf(c))
    BY DEF In
  <2>6. used'[b] = used[b] + Owes(w, b)
    BY <2>2, <2>4, <2>5
  <2> HIDE DEF w
  <2> QED
    BY <1>2, <2>2, <2>3, <2>6
<1>8. ASSUME NEW t \in Limits!Turns, Limits!CallFails(t)
      PROVE  Level(b)' /\ Staked(b)'
  <2>1. /\ turn[t].step = "call" /\ turn' = [turn EXCEPT ![t] = Limits!NoTurn]
        /\ UNCHANGED <<now, bucket, used, outages, late>>
    BY <1>8 DEF Limits!CallFails
  <2>2. Owes(turn[t], b) = 0 /\ Risks(turn[t], b) \in 0..MaxCost
    BY <1>1, <2>1, TurnNumbers
  <2>3. /\ Shaped(Limits!NoTurn)
        /\ Owes(Limits!NoTurn, b) = 0 /\ Risks(Limits!NoTurn, b) = 0
    BY TurnNumbers DEF Shaped
  <2>4. Risks(Limits!NoTurn, b) <= Risks(turn[t], b)
    BY <1>1, <2>2, <2>3
  <2> QED
    BY <1>2, <2>1, <2>2, <2>3, <2>4
<1>9. ASSUME UNCHANGED <<turn, used, late, outages>>, now <= now'
      PROVE  /\ Staked(b)' /\ Spent(b)' = Spent(b)
             /\ bucket'[b] = bucket[b] => Level(b)'
  <2>1. Spent(b)' = Spent(b) /\ Stakes(b)' = Stakes(b)
    BY <1>9 DEF Spent, Debts, Stakes
  <2>2. Spent(b) \in Int /\ Stakes(b) \in Nat
    BY <1>0, AccountTypes
  <2>3. MaxCost * (outages' - outages) = 0 /\ late <= late' /\ outages <= outages'
    BY <1>1, <1>9
  <2>4. /\ Spent(b)' <= Spent(b) + MaxCost * (outages' - outages)
        /\ Spent(b)' + Stakes(b)' <= Spent(b) + Stakes(b) + MaxCost * (outages' - outages)
    BY <2>1, <2>2, <2>3
  <2> QED
    BY <1>0, <1>9, <2>1, <2>3, <2>4, StakedKept, LevelKept
<1>10. CASE Limits!Tick
  <2>1. /\ now' = now + 1 /\ bucket' = Limits!Expire(bucket)
        /\ UNCHANGED <<turn, used, late, outages>>
    BY <1>10 DEF Limits!Tick
  <2>2. now' \in Nat /\ now <= now'
    BY <1>1, <2>1
  <2>3. Staked(b)' /\ Spent(b)' = Spent(b) /\ (bucket'[b] = bucket[b] => Level(b)')
    BY <1>9, <2>1, <2>2
  <2>4. bucket'[b] = IF bucket[b].stored /\ bucket[b].expires <= now' THEN Limits!NotStored
                     ELSE bucket[b]
    BY <1>1, <2>1 DEF Limits!Expire
  <2>5. CASE bucket[b].stored /\ bucket[b].expires <= now'
    <3>1. bucket'[b] = Limits!NotStored
      BY <2>4, <2>5
    <3>2. bucket'[b].stored = FALSE
      BY <3>1 DEF Limits!NotStored
    <3>3. /\ bucket[b].balance \in Int /\ bucket[b].at \in Nat /\ bucket[b].expires \in Nat
      BY <1>0, <2>5, StoredBuckets
    <3>4. /\ bucket[b].balance + Spent(b)
               <= Limits!Capacity(b) + Rate * (bucket[b].at + late) + MaxCost * outages
          /\ Limits!Capacity(b) - bucket[b].balance <= Rate * (bucket[b].expires - bucket[b].at)
      BY <1>0, <2>5 DEF Level
    <3>5. /\ Rate \in Nat /\ Limits!Capacity(b) \in Nat /\ MaxCost * outages \in Int
          /\ Spent(b) \in Int
      BY <1>0, AccountTypes
    <3>6. Spent(b) <= Rate * (now' + late) + MaxCost * outages
      BY <1>1, <2>2, <2>5, <3>3, <3>4, <3>5, ReadsFull
    <3> QED
      BY <2>1, <2>3, <3>2, <3>6 DEF Level
  <2>6. CASE ~(bucket[b].stored /\ bucket[b].expires <= now')
    BY <2>3, <2>4, <2>6
  <2> QED
    BY <2>5, <2>6
<1>11. CASE UNCHANGED limits
  <2>1. UNCHANGED <<now, bucket, turn, used, outages, late>>
    BY <1>11 DEF limits
  <2>2. now <= now'
    BY <1>1, <2>1
  <2> QED
    BY <1>9, <2>1, <2>2
<1> QED
  BY <1>3, <1>4, <1>5, <1>6, <1>7, <1>8, <1>10, <1>11 DEF Limits!Next

\* For any senders, buckets, costs, clocks and failures, nobody spends more than
\* their bucket held and was refilled, but for the turns under way together, the
\* outages of Redis and the clocks that were late (TokenBudget).
THEOREM SpendingStaysBounded == Spec => []SpendingBounded
<1>1. Init => Ledger
  BY LimitsFollowed, LedgerInit
<1>2. LimitsTypes /\ LimitsTypes' /\ Ledger /\ [Next]_vars => Ledger'
  BY LimitsFollowed, LedgerStep
<1>3. ASSUME LimitsTypes, Ledger PROVE SpendingBounded
  <2> SUFFICES ASSUME NEW b \in Limits!Buckets
               PROVE  used[b] < Limits!Capacity(b) + Rate * (now + late)
                                  + MaxCost * (MaxInFlight + outages)
    BY DEF SpendingBounded, Limits!SpendingBounded
  <2>1. LimitShapes /\ Staked(b)
    BY <1>3 DEF LimitsTypes, Ledger
  <2>2. Debts(b) <= Stakes(b)
    <3> DEFINE owing  == [t \in Limits!Turns |-> Owes(turn[t], b)]
               risked == [t \in Limits!Turns |-> Risks(turn[t], b)]
    <3>1. /\ owing \in [Limits!Turns -> 0..MaxCost] /\ risked \in [Limits!Turns -> 0..MaxCost]
          /\ \A t \in Limits!Turns : owing[t] <= risked[t]
      BY <2>1, TurnNumbers DEF LimitShapes
    <3>2. Total(owing) <= Total(risked)
      BY <3>1, TotalLess
    <3> QED
      BY <3>2 DEF Debts, Stakes
  <2>3. /\ Debts(b) \in Nat /\ Stakes(b) \in Nat /\ used[b] \in Nat
    BY <2>1, TotalType DEF Debts, Stakes, LimitShapes
  <2>4. /\ Limits!Capacity(b) + Rate * (now + late) \in Int
        /\ MaxCost * (MaxInFlight + outages) \in Int
    BY <2>1, Positive DEF LimitShapes
  <2>5. Spent(b) = used[b] - Debts(b)
    BY DEF Spent
  <2> QED
    BY <2>1, <2>2, <2>3, <2>4, <2>5 DEF Staked
<1> QED
  BY <1>1, <1>2, <1>3, LimitsTypesHold, PTL DEF Spec
=============================================================================
