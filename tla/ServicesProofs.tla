--------------------------- MODULE ServicesProofs ---------------------------
(* Proofs about the credentials document, the colonies, the mention lists, *)
(* the birthday loop and the platform supervisor, for any number of saves, *)
(* reconnects, groups, lists, chats, platforms, restarts and failures.     *)
(* Each holds of the composition: a step of another service leaves this    *)
(* one alone.  (The agent's limits are in AgentLimitsProofs.)              *)
EXTENDS Services, FiniteSetTheorems, SequenceTheorems, TLAPS

LEMMA CredsFollowed ==
    /\ Init => Creds!Init
    /\ [Next]_vars => [Creds!Next]_creds
  BY DEF Init, Next, vars, creds

-----------------------------------------------------------------------------
(*                           The credentials document                      *)
LEMMA CredsTypeInit == ASSUME Creds!Init PROVE Creds!TypeOK
  BY CredsAssumption DEF Creds!Init, Creds!TypeOK, Creds!Snapshots

LEMMA CredsTypeStep == ASSUME Creds!TypeOK, [Creds!Next]_creds PROVE Creds!TypeOK'
<1> USE CredsAssumption DEF Creds!TypeOK
<1>1. CASE Creds!SaveCreds
  <2>1. [session |-> session, version |-> version + 1] \in Creds!Snapshots
    BY <1>1 DEF Creds!SaveCreds, Creds!Snapshots
  <2> QED
    BY <1>1, <2>1 DEF Creds!SaveCreds, Creds!Saves
<1>2. ASSUME NEW s \in saves, NEW next \in {"update", "insert", "retry"}
      PROVE  /\ s.snapshot \in Creds!Snapshots
             /\ [s EXCEPT !.step = next] \in Creds!Saves
  BY DEF Creds!Saves
<1>3. ASSUME NEW s \in saves, Creds!Update(s) PROVE Creds!TypeOK'
  BY <1>2, <1>3 DEF Creds!Update, Creds!Advance, Creds!Finish
<1>4. ASSUME NEW s \in saves, Creds!Insert(s) PROVE Creds!TypeOK'
  BY <1>2, <1>4 DEF Creds!Insert, Creds!Advance, Creds!Finish
<1>5. ASSUME NEW s \in saves, Creds!Retry(s) \/ Creds!Fail(s) PROVE Creds!TypeOK'
  BY <1>2, <1>5 DEF Creds!Retry, Creds!Fail, Creds!Finish
<1>6. CASE Creds!Reconnect
  BY <1>6 DEF Creds!Reconnect, Creds!Snapshots
<1>7. CASE UNCHANGED creds
  BY <1>7 DEF creds
<1> QED
  BY <1>1, <1>3, <1>4, <1>5, <1>6, <1>7 DEF Creds!Next

\* The document, the counters and the saves under way stay in their ranges
\* (useMongoDBAuthState, saveCreds).
THEOREM CredsTyped == Spec => []Creds!TypeOK
  BY CredsTypeInit, CredsTypeStep, CredsFollowed, PTL DEF Spec

-----------------------------------------------------------------------------
(* No two saves carry the same snapshot: a socket numbers its own from the *)
(* version it read, and saves of an earlier socket name that socket.  A    *)
(* document that is not there was never written, so anything is newer.     *)
SnapshotsNumbered ==
    /\ \A s, t \in saves : s.snapshot = t.snapshot => s = t
    /\ \A s \in saves : /\ s.snapshot.version > 0
                        /\ s.snapshot.session <= session
                        /\ s.snapshot.session = session => s.snapshot.version <= version
    /\ ~document => stored.version = 0

CredsInv == Creds!TypeOK /\ SnapshotsNumbered

LEMMA SnapshotsNumberedInit == ASSUME Creds!Init PROVE SnapshotsNumbered
  BY DEF Creds!Init, SnapshotsNumbered

\* What a save does to the others when it goes on or ends.
LEMMA SaveAdvanced ==
    ASSUME CredsInv, NEW s \in saves, NEW next \in {"update", "insert", "retry"},
           Creds!Advance(s, next),
           UNCHANGED <<session, version>>
    PROVE  /\ \A u, v \in saves' : u.snapshot = v.snapshot => u = v
           /\ \A u \in saves' : /\ u.snapshot.version > 0
                                /\ u.snapshot.session <= session'
                                /\ u.snapshot.session = session' => u.snapshot.version <= version'
           /\ {u.snapshot : u \in saves'} = {u.snapshot : u \in saves}
<1> DEFINE t == [s EXCEPT !.step = next]
<1>1. t.snapshot = s.snapshot
  BY DEF CredsInv, Creds!TypeOK, Creds!Saves
<1>2. saves' = (saves \ {s}) \cup {t}
  BY DEF Creds!Advance
<1> HIDE DEF t
<1>3. \A u \in saves' : u = t \/ (u \in saves /\ u # s)
  BY <1>2
<1>4. t \in saves'
  BY <1>2
<1> QED
  BY <1>1, <1>2, <1>3, <1>4 DEF CredsInv, SnapshotsNumbered

LEMMA SnapshotsNumberedStep == ASSUME CredsInv, [Creds!Next]_creds PROVE SnapshotsNumbered'
<1> USE DEF CredsInv, SnapshotsNumbered
<1>1. CASE Creds!SaveCreds
  <2> DEFINE new == [snapshot |-> [session |-> session, version |-> version + 1],
                     step |-> "update"]
  <2>1. saves' = saves \cup {new} /\ version' = version + 1
        /\ UNCHANGED <<document, stored, session>>
    BY <1>1 DEF Creds!SaveCreds
  <2>2. \A s \in saves : s.snapshot # new.snapshot
    BY CredsAssumption DEF Creds!TypeOK
  <2>3. /\ new.snapshot.version = version + 1
        /\ new.snapshot.session = session
    OBVIOUS
  <2>4. version \in Nat /\ session \in Nat
    BY CredsAssumption DEF Creds!TypeOK
  <2>5. \A s \in saves : s.snapshot.version \in Nat
    BY CredsAssumption DEF Creds!TypeOK, Creds!Saves, Creds!Snapshots
  <2> HIDE DEF new
  <2> QED
    BY <2>1, <2>2, <2>3, <2>4, <2>5
<1>2. ASSUME NEW s \in saves, Creds!Finish(s), UNCHANGED <<session, version>>
      PROVE  /\ \A u, v \in saves' : u.snapshot = v.snapshot => u = v
             /\ \A u \in saves' : /\ u.snapshot.version > 0
                                  /\ u.snapshot.session <= session'
                                  /\ u.snapshot.session = session' => u.snapshot.version <= version'
  BY <1>2 DEF Creds!Finish
<1>3. ASSUME NEW s \in saves, Creds!Update(s) PROVE SnapshotsNumbered'
  BY <1>2, <1>3, SaveAdvanced DEF Creds!Update, Creds!Matches
<1>4. ASSUME NEW s \in saves, Creds!Insert(s) PROVE SnapshotsNumbered'
  BY <1>2, <1>4, SaveAdvanced DEF Creds!Insert
<1>5. ASSUME NEW s \in saves, Creds!Retry(s) PROVE SnapshotsNumbered'
  BY <1>2, <1>5 DEF Creds!Retry, Creds!Matches
<1>6. ASSUME NEW s \in saves, Creds!Fail(s) PROVE SnapshotsNumbered'
  BY <1>2, <1>6 DEF Creds!Fail
<1>7. CASE Creds!Reconnect
  BY <1>7, CredsAssumption DEF Creds!Reconnect, Creds!TypeOK, Creds!Saves, Creds!Snapshots
<1>8. CASE UNCHANGED creds
  BY <1>8 DEF creds
<1> QED
  BY <1>1, <1>3, <1>4, <1>5, <1>6, <1>7, <1>8 DEF Creds!Next

-----------------------------------------------------------------------------
pending == {s.snapshot : s \in saves}

\* A save that ends settles its snapshot, and no other.
LEMMA SaveSettled ==
    ASSUME CredsInv, NEW s \in saves, Creds!Finish(s)
    PROVE  s.snapshot \in pending /\ pending' = pending \ {s.snapshot}
  BY DEF CredsInv, SnapshotsNumbered, Creds!Finish, pending

LEMMA SaveRefines ==
    ASSUME CredsInv, [Creds!Next]_creds
    PROVE  [Creds!Newest!Next]_(Creds!Newest!vars)
<1> USE DEF Creds!Newest!vars
<1>0. pending = {s.snapshot : s \in saves}
  BY DEF pending
<1>t. \A s \in saves : s.snapshot \in Creds!Snapshots /\ s.snapshot.version \in Nat
  BY CredsAssumption DEF CredsInv, Creds!TypeOK, Creds!Saves, Creds!Snapshots
<1>1. CASE Creds!SaveCreds
  <2> DEFINE snapshot == [session |-> session, version |-> version + 1]
  <2>1. snapshot \in Creds!Snapshots
    BY <1>1, CredsAssumption DEF Creds!SaveCreds, Creds!Snapshots, CredsInv, Creds!TypeOK
  <2>2. snapshot \notin pending
    BY <1>t, CredsAssumption DEF pending, CredsInv, SnapshotsNumbered, Creds!TypeOK
  <2> DEFINE save == [snapshot |-> snapshot, step |-> "update"]
  <2>s. save.snapshot = snapshot /\ saves' = saves \cup {save}
    BY <1>1 DEF Creds!SaveCreds
  <2> HIDE DEF save
  <2>3. pending' = pending \cup {snapshot}
    BY <2>s DEF pending
  <2>4. UNCHANGED stored
    BY <1>1 DEF Creds!SaveCreds
  <2> HIDE DEF snapshot
  <2>5. \E s \in Creds!Snapshots : Creds!Newest!Offer(s)
    BY <2>1, <2>2, <2>3, <2>4 DEF Creds!Newest!Offer, pending
  <2> QED
    BY <2>5 DEF Creds!Newest!Next
<1>2. ASSUME NEW s \in saves, Creds!Finish(s),
             stored' = IF s.snapshot.version > stored.version THEN s.snapshot ELSE stored
      PROVE  Creds!Newest!Next
  <2>1. Creds!Newest!Keep(s.snapshot)
    BY <1>2, SaveSettled DEF Creds!Newest!Keep, pending
  <2> QED
    BY <1>t, <2>1 DEF Creds!Newest!Next
<1>3. ASSUME NEW s \in saves, Creds!Finish(s), UNCHANGED stored
      PROVE  Creds!Newest!Next
  <2>1. Creds!Newest!Lose(s.snapshot)
    BY <1>3, SaveSettled DEF Creds!Newest!Lose, pending
  <2> QED
    BY <1>t, <2>1 DEF Creds!Newest!Next
<1>4. ASSUME NEW s \in saves, NEW next \in {"insert", "retry"}, Creds!Advance(s, next),
             UNCHANGED <<stored, session, version>>
      PROVE  UNCHANGED Creds!Newest!vars
  BY <1>4, SaveAdvanced
<1>5. ASSUME NEW s \in saves, Creds!Update(s) PROVE [Creds!Newest!Next]_(Creds!Newest!vars)
  BY <1>2, <1>4, <1>5, <1>t DEF Creds!Update, Creds!Matches
<1>6. ASSUME NEW s \in saves, Creds!Insert(s) PROVE [Creds!Newest!Next]_(Creds!Newest!vars)
  BY <1>2, <1>4, <1>6, <1>t DEF Creds!Insert, CredsInv, SnapshotsNumbered
<1>7. ASSUME NEW s \in saves, Creds!Retry(s) \/ Creds!Fail(s) PROVE Creds!Newest!Next
  BY <1>2, <1>3, <1>7, <1>t DEF Creds!Retry, Creds!Fail, Creds!Matches
<1>8. CASE Creds!Reconnect \/ UNCHANGED creds
  BY <1>8 DEF Creds!Reconnect, creds
<1> QED
  BY <1>1, <1>5, <1>6, <1>7, <1>8 DEF Creds!Next

\* However the saves of one socket or of two interleave, fail and land out of
\* order, what the document holds only ever gives way to a newer snapshot
\* (MongoDBAuthState.saveCreds).
THEOREM CredsKeepNewest == Spec => KeepsNewest
<1>1. Creds!Init => Creds!Newest!Init
  BY CredsAssumption DEF Creds!Init, Creds!Newest!Init, Creds!Snapshots
<1>2. Creds!Init => CredsInv
  BY CredsTypeInit, SnapshotsNumberedInit DEF CredsInv
<1>3. CredsInv /\ [Creds!Next]_creds => CredsInv'
  BY CredsTypeStep, SnapshotsNumberedStep DEF CredsInv
<1> QED
  BY <1>1, <1>2, <1>3, SaveRefines, CredsFollowed, PTL
     DEF Spec, KeepsNewest, Creds!KeepsNewest, Creds!Newest!Spec

-----------------------------------------------------------------------------
(* The colonies.  A key that falls out of recent_keys may be counted once  *)
(* more; every number is given to one group by the step that counts it,    *)
(* and again only to a group that finds itself counted.                    *)

Elements(s) == {s[i] : i \in DOMAIN s}
Remembered == Elements(recent)

\* Everything counted is remembered or forgotten.
Counts ==
    /\ Cardinality(counted) <= number
    /\ number <= Cardinality(Remembered) + forgotten
    /\ ~hasCounter => recent = <<>>

\* A number held by a group: in its subject, or about to be put there.
Holds(g, n) ==
    \/ title[g] = n
    \/ \E w \in Workers : /\ worker[w].step = "subject" /\ worker[w].event[2] = g
                          /\ worker[w].colony = n

Held ==
    /\ \A g \in Groups, n \in Nat : Holds(g, n) => n <= number
    /\ \A g, h \in Groups, n \in Nat \ {0} :
         g # h /\ Holds(g, n) /\ Holds(h, n) => {g, h} \cap repeated # {}
    /\ \A g \in Groups : title[g] # 0 => g \in counted \/ raced
    /\ \A w \in Workers : worker[w].step \in {"read", "subject"} =>
         worker[w].event[2] \in counted \/ raced
    /\ \A w \in Workers : worker[w].step = "read" => worker[w].event[2] \in repeated

ColoniesInv == Colonies!TypeOK /\ Counts /\ Held

\* The key is appended, the oldest dropped when there is no room.
LEMMA Remembering ==
    ASSUME Colonies!TypeOK, NEW g \in Groups
    PROVE  /\ Colonies!Remember(g) \in Seq(counted \cup {g})
           /\ Len(Colonies!Remember(g)) <= RECENT_LIMIT
           /\ \E T \in SUBSET Remembered : Elements(Colonies!Remember(g)) = T \cup {g}
<1> DEFINE V == counted \cup {g}
<1>0. /\ recent \in Seq(V) /\ Len(recent) <= RECENT_LIMIT /\ RECENT_LIMIT \in Nat \ {0}
      /\ g \in V
  BY ColoniesAssumption DEF Colonies!TypeOK
<1> HIDE DEF V
<1>1. ASSUME NEW s \in Seq(V)
      PROVE  /\ Append(s, g) \in Seq(V) /\ Len(Append(s, g)) = Len(s) + 1
             /\ Elements(Append(s, g)) = Elements(s) \cup {g}
  <2> DEFINE r == Append(s, g)
  <2>1. /\ r \in Seq(V) /\ Len(r) = Len(s) + 1 /\ r[Len(s) + 1] = g
        /\ \A i \in 1..Len(s) : r[i] = s[i]
    BY <1>0, AppendProperties
  <2>2. DOMAIN r = DOMAIN s \cup {Len(s) + 1} /\ DOMAIN s = 1..Len(s)
    <3>1. DOMAIN r = 1..(Len(s) + 1) /\ DOMAIN s = 1..Len(s) /\ Len(s) \in Nat
      BY <2>1
    <3> QED
      BY <3>1
  <2> HIDE DEF r
  <2>3. Elements(r) = Elements(s) \cup {g}
    BY <2>1, <2>2 DEF Elements
  <2> QED
    BY <2>1, <2>3 DEF r
<1>2. CASE Len(recent) < RECENT_LIMIT
  <2>1. Colonies!Remember(g) = Append(recent, g)
    BY <1>2 DEF Colonies!Remember
  <2> QED
    <3>1. /\ Append(recent, g) \in Seq(V) /\ Len(Append(recent, g)) = Len(recent) + 1
          /\ Elements(Append(recent, g)) = Remembered \cup {g}
      BY <1>0, <1>1 DEF Remembered
    <3>2. Len(recent) \in Nat /\ Remembered \in SUBSET Remembered
      BY <1>0
    <3>3. Len(Append(recent, g)) <= RECENT_LIMIT
      BY <1>0, <1>2, <3>1, <3>2
    <3> QED
      BY <2>1, <3>1, <3>2, <3>3 DEF V
<1>3. CASE ~(Len(recent) < RECENT_LIMIT)
  <2> DEFINE t == Tail(recent)
  <2>1. Colonies!Remember(g) = Append(t, g)
    BY <1>3 DEF Colonies!Remember
  <2>2. recent # <<>>
    BY <1>0, <1>3
  <2>3. /\ t \in Seq(V) /\ Len(t) = Len(recent) - 1
        /\ \A i \in 1..Len(t) : t[i] = recent[i + 1]
    BY <1>0, <2>2, HeadTailProperties
  <2>4. DOMAIN t = 1..Len(t) /\ DOMAIN recent = 1..Len(recent) /\ Len(t) \in Nat
    BY <1>0, <2>3
  <2> HIDE DEF t
  <2>5. Elements(t) \in SUBSET Remembered
    <3>1. \A i \in DOMAIN t : i + 1 \in DOMAIN recent /\ t[i] = recent[i + 1]
      BY <2>3, <2>4
    <3> QED
      BY <3>1 DEF Remembered, Elements
  <2>6. Len(Append(t, g)) <= RECENT_LIMIT
    BY <1>0, <1>1, <2>3
  <2> QED
    BY <1>0, <1>1, <2>1, <2>3, <2>5, <2>6 DEF V
<1> QED
  BY <1>2, <1>3

LEMMA RememberedFinite ==
    ASSUME Colonies!TypeOK
    PROVE  IsFiniteSet(Remembered) /\ IsFiniteSet(counted)
<1>1. Remembered \subseteq counted /\ counted \subseteq Groups
  BY DEF Colonies!TypeOK, Remembered, Elements
<1>2. IsFiniteSet(counted)
  BY <1>1, ColoniesAssumption, FS_Subset
<1> QED
  BY <1>1, <1>2, FS_Subset

LEMMA ColoniesInit == ASSUME Colonies!Init PROVE ColoniesInv
<1>1. Colonies!TypeOK
  <2>1. /\ queue \in [Colonies!Events -> Nat] /\ sent \in [Colonies!Events -> 0..MaxEvents]
        /\ worker \in [Workers -> Colonies!Handlings] /\ title \in [Groups -> Nat]
    BY ColoniesAssumption DEF Colonies!Init, Colonies!Handlings
  <2>2. recent \in Seq(counted) /\ Len(recent) <= RECENT_LIMIT
    BY ColoniesAssumption DEF Colonies!Init
  <2>3. 0 \in 0..MaxCrashes
    BY ColoniesAssumption
  <2> QED
    BY <2>1, <2>2, <2>3 DEF Colonies!Init, Colonies!TypeOK
<1>2. Counts
  <2>1. Remembered = {}
    BY DEF Colonies!Init, Remembered, Elements
  <2> QED
    BY <2>1, FS_EmptySet DEF Colonies!Init, Counts
<1>3. Held
  BY DEF Colonies!Init, Colonies!Idle, Held, Holds
<1> QED
  BY <1>1, <1>2, <1>3 DEF ColoniesInv

\* The instance's Cardinality is the library's.
LEMMA ColoniesCardinality == \A S : Colonies!Cardinality(S) = Cardinality(S)
BY SMT DEF Cardinality, Colonies!Cardinality

\* Counting a group: the steps shared by the update and the insertion.
LEMMA IncrementTyped ==
    ASSUME ColoniesInv, NEW w \in Workers, Colonies!Increment(w), worker[w] # Colonies!Idle,
           UNCHANGED <<queue, sent, title, crashes, repeated, raced>>
    PROVE  Colonies!TypeOK'
<1> DEFINE g == worker[w].event[2]
<1>0. Colonies!TypeOK /\ worker[w].event \in Colonies!Events /\ g \in Groups
  BY DEF ColoniesInv, Colonies!TypeOK, Colonies!Handlings, Colonies!Events
<1>1. /\ hasCounter' = TRUE /\ number' = number + 1 /\ recent' = Colonies!Remember(g)
      /\ counted' = counted \cup {g}
      /\ forgotten' = forgotten
           + Cardinality(Colonies!ToSet(recent) \ Colonies!ToSet(recent'))
      /\ worker' = [worker EXCEPT ![w] = [event |-> @.event, step |-> "subject",
                                          colony |-> number + 1]]
  BY Zenon, ColoniesCardinality DEF Colonies!Increment, Colonies!GroupOf
<1>2. recent' \in Seq(counted') /\ Len(recent') <= RECENT_LIMIT
  BY <1>0, <1>1, Remembering
<1>3. forgotten' \in Nat
  <2>1. Colonies!ToSet(recent) = Remembered
    BY DEF Colonies!ToSet, Remembered, Elements
  <2>2. IsFiniteSet(Remembered \ Colonies!ToSet(recent'))
    BY <1>0, RememberedFinite, FS_Difference
  <2> QED
    BY <1>0, <1>1, <2>1, <2>2, FS_CardinalityType DEF Colonies!TypeOK
<1>4. worker' \in [Workers -> Colonies!Handlings]
  BY <1>0, <1>1 DEF Colonies!TypeOK, Colonies!Handlings
<1> HIDE DEF g
<1> QED
  BY <1>0, <1>1, <1>2, <1>3, <1>4 DEF Colonies!TypeOK

\* The step after a publish is the next of the list.
LEMMA Proceeding ==
    ASSUME NEW w \in Workers, Colonies!Proceed(w)
    PROVE  /\ worker[w].step \in {"metadata", "demote", "tell", "describe"}
           /\ \E next \in {"demote", "count", "describe", "picture"} :
                worker' = [worker EXCEPT ![w].step = next]
<1> DEFINE i == CHOOSE i \in DOMAIN Colonies!Steps : Colonies!At(w, Colonies!Steps[i])
<1>1. worker[w].step \in {"metadata", "demote", "tell", "describe"}
  BY DEF Colonies!Proceed
<1>2. /\ DOMAIN Colonies!Steps = 1..7
      /\ Colonies!Steps[1] = "metadata" /\ Colonies!Steps[2] = "demote"
      /\ Colonies!Steps[3] = "count" /\ Colonies!Steps[4] = "subject"
      /\ Colonies!Steps[5] = "tell" /\ Colonies!Steps[6] = "describe"
      /\ Colonies!Steps[7] = "picture"
  BY DEF Colonies!Steps
<1>3. i \in 1..7 /\ Colonies!Steps[i] = worker[w].step
  BY <1>1, <1>2 DEF Colonies!At
<1>4. worker' = [worker EXCEPT ![w].step = Colonies!Steps[i + 1]]
  BY DEF Colonies!Proceed, Colonies!To
<1> HIDE DEF i
<1>5. i \in {1, 2, 5, 6}
  BY <1>1, <1>2, <1>3
<1>6. Colonies!Steps[i + 1] \in {"demote", "count", "describe", "picture"}
  BY <1>2, <1>5
<1> QED
  BY <1>1, <1>4, <1>6

LEMMA ColoniesTypeStep == ASSUME ColoniesInv, [Colonies!Next]_colonies PROVE Colonies!TypeOK'
<1> USE DEF Colonies!counter
<1>0. Colonies!TypeOK
  BY DEF ColoniesInv
<1>1. ASSUME NEW w \in Workers, worker[w] # Colonies!Idle,
             NEW next \in {"demote", "count", "insert", "read", "describe", "picture"},
             worker[w].step # "subject", worker' = [worker EXCEPT ![w].step = next]
      PROVE  worker' \in [Workers -> Colonies!Handlings]
  BY <1>0, <1>1 DEF Colonies!TypeOK, Colonies!Handlings
<1>2. ASSUME NEW e \in Colonies!Events, Colonies!GroupEvent(e) PROVE Colonies!TypeOK'
  <2>1. queue' \in [Colonies!Events -> Nat] /\ sent' \in [Colonies!Events -> 0..MaxEvents]
    <3>1. sent[e] + 1 \in 0..MaxEvents /\ queue[e] + 1 \in Nat
      BY <1>0, <1>2, ColoniesAssumption DEF Colonies!GroupEvent, Colonies!TypeOK
    <3> QED
      BY <1>0, <1>2, <3>1 DEF Colonies!GroupEvent, Colonies!TypeOK
  <2> QED
    BY <1>0, <1>2, <2>1 DEF Colonies!GroupEvent, Colonies!TypeOK
<1>3. ASSUME NEW w \in Workers, NEW e \in Colonies!Events, Colonies!Deliver(w, e)
      PROVE  Colonies!TypeOK'
  <2>1. queue' \in [Colonies!Events -> Nat]
    BY <1>0, <1>3 DEF Colonies!Deliver, Colonies!TypeOK
  <2>2. worker' \in [Workers -> Colonies!Handlings]
    BY <1>0, <1>3 DEF Colonies!Deliver, Colonies!TypeOK, Colonies!Handlings
  <2> QED
    BY <1>0, <1>3, <2>1, <2>2 DEF Colonies!Deliver, Colonies!TypeOK
<1>4. ASSUME NEW w \in Workers, Colonies!Done(w) \/ Colonies!GiveUp(w) PROVE Colonies!TypeOK'
  <2>1. worker' \in [Workers -> Colonies!Handlings]
    BY <1>0, <1>4
    DEF Colonies!Done, Colonies!GiveUp, Colonies!Ack, Colonies!TypeOK, Colonies!Handlings
  <2> QED
    BY <1>0, <1>4, <2>1 DEF Colonies!Done, Colonies!GiveUp, Colonies!TypeOK
<1>5. ASSUME NEW w \in Workers, Colonies!Proceed(w) PROVE Colonies!TypeOK'
  <2>1. /\ worker[w].step \in {"metadata", "demote", "tell", "describe"}
        /\ \E next \in {"demote", "count", "describe", "picture"} :
             worker' = [worker EXCEPT ![w].step = next]
    BY <1>5, Proceeding
  <2>2. worker[w] # Colonies!Idle
    BY <2>1 DEF Colonies!Idle
  <2>3. worker' \in [Workers -> Colonies!Handlings]
    BY <1>1, <2>1, <2>2
  <2> QED
    BY <1>0, <1>5, <2>3 DEF Colonies!Proceed, Colonies!TypeOK
<1>6. ASSUME NEW w \in Workers, Colonies!CountColony(w) PROVE Colonies!TypeOK'
  <2>1. worker[w].step = "count" /\ worker[w] # Colonies!Idle
    BY <1>6 DEF Colonies!CountColony, Colonies!At, Colonies!Idle
  <2>2. CASE Colonies!Increment(w) /\ UNCHANGED <<repeated, raced>>
    BY <1>6, <2>1, <2>2, IncrementTyped DEF Colonies!CountColony
  <2>3. CASE Colonies!To(w, "insert") /\ UNCHANGED Colonies!counter
    <3>1. worker' \in [Workers -> Colonies!Handlings]
      BY <1>1, <2>1, <2>3 DEF Colonies!To
    <3> QED
      BY <1>0, <1>6, <2>3, <3>1 DEF Colonies!CountColony, Colonies!TypeOK
  <2> QED
    BY <1>6, <2>2, <2>3 DEF Colonies!CountColony
<1>7. ASSUME NEW w \in Workers, Colonies!InsertCounter(w) PROVE Colonies!TypeOK'
  <2>1. worker[w].step = "insert" /\ worker[w] # Colonies!Idle
    BY <1>7 DEF Colonies!InsertCounter, Colonies!At, Colonies!Idle
  <2>2. CASE Colonies!Increment(w) /\ UNCHANGED <<repeated, raced>>
    BY <1>7, <2>1, <2>2, IncrementTyped DEF Colonies!InsertCounter
  <2>3. CASE ~(Colonies!Increment(w) /\ UNCHANGED <<repeated, raced>>)
    <3>1. /\ Colonies!To(w, "read") /\ repeated' = repeated \cup {Colonies!GroupOf(w)}
          /\ raced' = (raced \/ Colonies!KeyNew(Colonies!GroupOf(w)))
          /\ UNCHANGED <<hasCounter, number, recent, counted, forgotten>>
          /\ UNCHANGED <<queue, sent, title, crashes>>
      BY <1>7, <2>3 DEF Colonies!InsertCounter
    <3>2. worker' \in [Workers -> Colonies!Handlings]
      BY <1>1, <2>1, <3>1 DEF Colonies!To
    <3>3. Colonies!GroupOf(w) \in Groups
      BY <1>0, <2>1
      DEF Colonies!GroupOf, Colonies!TypeOK, Colonies!Handlings, Colonies!Events
    <3>4. raced' \in BOOLEAN
      BY <1>0, <3>1 DEF Colonies!TypeOK
    <3> QED
      BY <1>0, <3>1, <3>2, <3>3, <3>4 DEF Colonies!TypeOK
  <2> QED
    BY <2>2, <2>3
<1>8. ASSUME NEW w \in Workers, Colonies!ReadCount(w) PROVE Colonies!TypeOK'
  <2>1. worker[w].event \in Colonies!Events
    BY <1>0, <1>8
    DEF Colonies!ReadCount, Colonies!At, Colonies!Idle, Colonies!TypeOK, Colonies!Handlings
  <2>2. worker' \in [Workers -> Colonies!Handlings]
    BY <1>0, <1>8, <2>1 DEF Colonies!ReadCount, Colonies!TypeOK, Colonies!Handlings
  <2> QED
    BY <1>0, <1>8, <2>2 DEF Colonies!ReadCount, Colonies!TypeOK
<1>9. ASSUME NEW w \in Workers, Colonies!Rename(w) PROVE Colonies!TypeOK'
  <2>1. worker[w].event \in Colonies!Events /\ worker[w].colony \in Nat
    <3>1. worker[w] \in Colonies!Handlings /\ worker[w].step = "subject"
      BY <1>0, <1>9 DEF Colonies!Rename, Colonies!At, Colonies!TypeOK
    <3>2. worker[w] \in [event: Colonies!Events, step: {"subject"}, colony: Nat]
      BY <3>1 DEF Colonies!Handlings, Colonies!Idle
    <3> QED
      BY <3>2
  <2>2. worker' \in [Workers -> Colonies!Handlings]
    BY <1>0, <1>9, <2>1 DEF Colonies!Rename, Colonies!TypeOK, Colonies!Handlings
  <2>3. title' \in [Groups -> Nat]
    BY <1>0, <1>9, <2>1 DEF Colonies!Rename, Colonies!TypeOK
  <2> QED
    BY <1>0, <1>9, <2>2, <2>3 DEF Colonies!Rename, Colonies!TypeOK
<1>10. CASE Colonies!Crash
  <2>1. ASSUME NEW e \in Colonies!Events
        PROVE  Cardinality({w \in Workers : worker[w] # Colonies!Idle
                                              /\ worker[w].event = e}) \in Nat
    <3>1. IsFiniteSet({w \in Workers : worker[w] # Colonies!Idle /\ worker[w].event = e})
      BY ColoniesAssumption, FS_Subset
    <3> QED
      BY <3>1, FS_CardinalityType
  <2>2. queue' \in [Colonies!Events -> Nat]
    <3> DEFINE again(e) == Cardinality({w \in Workers : worker[w] # Colonies!Idle
                                                        /\ worker[w].event = e})
    <3>1. queue' = [e \in Colonies!Events |-> queue[e] + again(e)]
      BY <1>10, ColoniesCardinality DEF Colonies!Crash
    <3>2. \A e \in Colonies!Events : again(e) \in Nat
      BY <2>1
    <3> HIDE DEF again
    <3> QED
      BY <1>0, <3>1, <3>2 DEF Colonies!TypeOK
  <2>3. worker' \in [Workers -> Colonies!Handlings]
    BY <1>10 DEF Colonies!Crash, Colonies!Handlings
  <2>4. crashes' \in 0..MaxCrashes
    BY <1>0, <1>10, ColoniesAssumption DEF Colonies!Crash, Colonies!TypeOK
  <2> QED
    BY <1>0, <1>10, <2>2, <2>3, <2>4 DEF Colonies!Crash, Colonies!TypeOK
<1>11. CASE UNCHANGED colonies
  BY <1>0, <1>11 DEF colonies, Colonies!TypeOK
<1> QED
  BY <1>2, <1>3, <1>4, <1>5, <1>6, <1>7, <1>8, <1>9, <1>10, <1>11 DEF Colonies!Next

\* The steps, by what they do to the numbers: nothing, or count a group, find it
\* counted, read its number or write it.
Quiet ==
    /\ UNCHANGED <<hasCounter, number, recent, title, counted, forgotten, repeated, raced>>
    /\ \A v \in Workers : worker'[v].step \in {"read", "subject"} => worker'[v] = worker[v]

Counting(w) ==
    /\ Colonies!Increment(w)
    /\ worker[w].step \in {"count", "insert"}
    /\ hasCounter => ~Colonies!Contains(recent, Colonies!GroupOf(w))
    /\ UNCHANGED <<title, repeated, raced>>

Finding(w) ==
    /\ worker[w].step = "insert" /\ hasCounter
    /\ worker' = [worker EXCEPT ![w].step = "read"]
    /\ repeated' = repeated \cup {Colonies!GroupOf(w)}
    /\ raced' = (raced \/ ~Colonies!Contains(recent, Colonies!GroupOf(w)))
    /\ UNCHANGED <<hasCounter, number, recent, title, counted, forgotten>>

LEMMA ColonySteps ==
    ASSUME Colonies!TypeOK, [Colonies!Next]_colonies
    PROVE  \/ Quiet
           \/ \E w \in Workers : \/ Counting(w) \/ Finding(w)
                                 \/ Colonies!ReadCount(w) \/ Colonies!Rename(w)
<1> USE DEF Colonies!counter
<1>0. worker \in [Workers -> Colonies!Handlings]
  BY DEF Colonies!TypeOK
<1>1. ASSUME NEW w \in Workers, NEW r, r.step \notin {"read", "subject"},
             worker' = [worker EXCEPT ![w] = r]
      PROVE  \A v \in Workers : worker'[v].step \in {"read", "subject"} => worker'[v] = worker[v]
  BY <1>0, <1>1
<1>2. ASSUME NEW w \in Workers, NEW next, next \notin {"read", "subject"},
             worker[w] # Colonies!Idle,
             worker' = [worker EXCEPT ![w].step = next]
      PROVE  \A v \in Workers : worker'[v].step \in {"read", "subject"} => worker'[v] = worker[v]
  <2>1. [worker[w] EXCEPT !.step = next].step = next
    BY <1>0, <1>2 DEF Colonies!Handlings
  <2> QED
    BY <1>1, <1>2, <2>1
<1>3. ASSUME NEW e \in Colonies!Events, Colonies!GroupEvent(e) PROVE Quiet
  BY <1>3 DEF Colonies!GroupEvent, Quiet
<1>4. ASSUME NEW w \in Workers, NEW e \in Colonies!Events, Colonies!Deliver(w, e) PROVE Quiet
  <2> DEFINE r == [event |-> e, step |-> IF e[1] = "joined" THEN "welcome" ELSE "metadata"]
  <2>1. r.step \notin {"read", "subject"}
    OBVIOUS
  <2>2. worker' = [worker EXCEPT ![w] = r]
    BY <1>4 DEF Colonies!Deliver
  <2> HIDE DEF r
  <2> QED
    BY <1>1, <1>4, <2>1, <2>2 DEF Colonies!Deliver, Quiet
<1>5. ASSUME NEW w \in Workers, Colonies!Done(w) \/ Colonies!GiveUp(w) PROVE Quiet
  <2>1. Colonies!Idle.step \notin {"read", "subject"}
    BY DEF Colonies!Idle
  <2> QED
    BY <1>1, <1>5, <2>1 DEF Colonies!Done, Colonies!GiveUp, Colonies!Ack, Quiet
<1>6. ASSUME NEW w \in Workers, Colonies!Proceed(w) PROVE Quiet
  <2>1. /\ worker[w] # Colonies!Idle
        /\ \E next \in {"demote", "count", "describe", "picture"} :
             worker' = [worker EXCEPT ![w].step = next]
    BY <1>6, Proceeding DEF Colonies!Idle
  <2> QED
    BY <1>2, <1>6, <2>1 DEF Colonies!Proceed, Quiet
<1>7. ASSUME NEW w \in Workers, Colonies!CountColony(w) PROVE Counting(w) \/ Quiet
  <2>1. worker[w].step = "count" /\ worker[w] # Colonies!Idle
    BY <1>7 DEF Colonies!CountColony, Colonies!At, Colonies!Idle
  <2>2. CASE hasCounter /\ Colonies!KeyNew(Colonies!GroupOf(w))
    BY <1>7, <2>1, <2>2 DEF Colonies!CountColony, Colonies!KeyNew, Counting
  <2>3. CASE ~(hasCounter /\ Colonies!KeyNew(Colonies!GroupOf(w)))
    <3>1. Colonies!To(w, "insert") /\ UNCHANGED Colonies!counter /\ UNCHANGED title
      BY <1>7, <2>3 DEF Colonies!CountColony
    <3> QED
      BY <1>2, <2>1, <3>1 DEF Colonies!To, Quiet
  <2> QED
    BY <2>2, <2>3
<1>8. ASSUME NEW w \in Workers, Colonies!InsertCounter(w) PROVE Counting(w) \/ Finding(w)
  <2>1. CASE ~hasCounter
    BY <1>8, <2>1 DEF Colonies!InsertCounter, Colonies!At, Counting
  <2>2. CASE hasCounter
    BY <1>8, <2>2
    DEF Colonies!InsertCounter, Colonies!At, Colonies!To, Colonies!KeyNew, Finding
  <2> QED
    BY <2>1, <2>2
<1>9. CASE Colonies!Crash
  BY <1>9 DEF Colonies!Crash, Colonies!Idle, Quiet
<1>10. CASE UNCHANGED colonies
  BY <1>10 DEF colonies, Quiet
<1> QED
  BY <1>3, <1>4, <1>5, <1>6, <1>7, <1>8, <1>9, <1>10 DEF Colonies!Next

\* With room or without, a counted group adds one to the keys ever remembered.
LEMMA OneMore ==
    ASSUME NEW S, IsFiniteSet(S), NEW T \in SUBSET S, NEW g, g \notin S
    PROVE  Cardinality(T \cup {g}) + Cardinality(S \ (T \cup {g})) = Cardinality(S) + 1
<1>1. IsFiniteSet(T) /\ Cardinality(T) \in Nat /\ Cardinality(S) \in Nat
  BY FS_Subset, FS_CardinalityType
<1>2. Cardinality(T \cup {g}) = Cardinality(T) + 1
  BY <1>1, FS_AddElement
<1>3. S \ (T \cup {g}) = S \ T /\ S \cap T = T
  OBVIOUS
<1>4. Cardinality(S \ T) = Cardinality(S) - Cardinality(S \cap T)
  BY FS_Difference
<1>5. Cardinality(S \ (T \cup {g})) = Cardinality(S) - Cardinality(T)
  BY <1>3, <1>4
<1> QED
  BY <1>1, <1>2, <1>5

LEMMA CountsStep == ASSUME ColoniesInv, [Colonies!Next]_colonies PROVE Counts'
<1>0. Colonies!TypeOK /\ Counts
  BY DEF ColoniesInv
<1>1. ASSUME UNCHANGED <<hasCounter, number, recent, counted, forgotten>> PROVE Counts'
  BY <1>0, <1>1 DEF Counts, Remembered, Elements
<1>2. ASSUME NEW w \in Workers, Counting(w) PROVE Counts'
  <2> DEFINE g == worker[w].event[2]
  <2>1. g \in Groups
    BY <1>0, <1>2
    DEF Counting, Colonies!TypeOK, Colonies!Handlings, Colonies!Events, Colonies!Idle
  <2>2. /\ hasCounter' = TRUE /\ number' = number + 1 /\ recent' = Colonies!Remember(g)
        /\ counted' = counted \cup {g}
        /\ forgotten' = forgotten
             + Cardinality(Colonies!ToSet(recent) \ Colonies!ToSet(recent'))
    BY <1>2, Zenon, ColoniesCardinality DEF Counting, Colonies!Increment, Colonies!GroupOf
  <2>3. Colonies!ToSet(recent) = Remembered /\ Colonies!ToSet(recent') = Remembered'
    BY DEF Colonies!ToSet, Remembered, Elements
  <2>4. g \notin Remembered
    <3>1. CASE hasCounter
      <4>1. ~Colonies!Contains(recent, g)
        BY <1>2, <3>1 DEF Counting, Colonies!GroupOf
      <4>2. DOMAIN recent = 1..Len(recent)
        BY <1>0 DEF Colonies!TypeOK
      <4> QED
        BY <4>1, <4>2 DEF Colonies!Contains, Remembered, Elements
    <3>2. CASE ~hasCounter
      BY <1>0, <3>2 DEF Counts, Remembered, Elements
    <3> QED
      BY <3>1, <3>2
  <2> HIDE DEF g
  <2>5. PICK T \in SUBSET Remembered : Remembered' = T \cup {g}
    <3>1. Remembered' = Elements(recent')
      BY DEF Remembered, Elements
    <3> QED
      BY <1>0, <2>1, <2>2, <3>1, Remembering
  <2>6. IsFiniteSet(Remembered) /\ IsFiniteSet(counted) /\ IsFiniteSet(counted')
    BY <1>0, <2>2, RememberedFinite, FS_AddElement
  <2>7. /\ Cardinality(counted') <= Cardinality(counted) + 1
        /\ Cardinality(counted) \in Nat /\ Cardinality(counted') \in Nat
    BY <2>2, <2>6, FS_AddElement, FS_CardinalityType
  <2>8. Cardinality(Remembered') + Cardinality(Remembered \ Remembered')
          = Cardinality(Remembered) + 1
    BY <2>4, <2>5, <2>6, OneMore
  <2>9. /\ Cardinality(Remembered) \in Nat /\ Cardinality(Remembered') \in Nat
        /\ Cardinality(Remembered \ Remembered') \in Nat
    BY <2>5, <2>6, FS_CardinalityType, FS_Subset, FS_AddElement, FS_Difference
  <2>10. number \in Nat /\ forgotten \in Nat
    BY <1>0 DEF Colonies!TypeOK
  <2>11. Cardinality(counted') <= number'
    BY <1>0, <2>2, <2>7, <2>10 DEF Counts
  <2>12. number' <= Cardinality(Remembered') + forgotten'
    <3>1. forgotten' = forgotten + Cardinality(Remembered \ Remembered')
      BY <2>2, <2>3
    <3>2. number' = number + 1 /\ number <= Cardinality(Remembered) + forgotten
      BY <1>0, <2>2 DEF Counts
    <3> QED
      BY <2>8, <2>9, <2>10, <3>1, <3>2
  <2> QED
    BY <2>2, <2>11, <2>12 DEF Counts
<1> QED
  BY <1>0, <1>1, <1>2, ColonySteps DEF Quiet, Finding, Colonies!ReadCount, Colonies!Rename,
     Colonies!counter

\* A step that gives the number n, one more or one that is taken for counted, to g.
LEMMA HeldKept ==
    ASSUME Held, NEW g \in Groups, NEW n \in Nat,
           \A h \in Groups, m \in Nat : Holds(h, m)' => Holds(h, m) \/ (h = g /\ m = n),
           \/ n > number /\ n <= number' /\ number \in Nat
           \/ g \in repeated /\ n <= number',
           number <= number', number \in Nat, number' \in Nat, repeated \subseteq repeated'
    PROVE  /\ \A h \in Groups, m \in Nat : Holds(h, m)' => m <= number'
           /\ \A h, k \in Groups, m \in Nat \ {0} :
                h # k /\ Holds(h, m)' /\ Holds(k, m)' => {h, k} \cap repeated' # {}
<1>1. /\ \A h \in Groups, m \in Nat : Holds(h, m) => m <= number
      /\ \A h, k \in Groups, m \in Nat \ {0} :
           h # k /\ Holds(h, m) /\ Holds(k, m) => {h, k} \cap repeated # {}
  BY DEF Held
<1>2. ASSUME NEW h \in Groups, NEW m \in Nat, Holds(h, m)' PROVE m <= number'
  <2>1. CASE Holds(h, m)
    <3>1. m <= number
      BY <1>1, <2>1
    <3> QED
      BY <3>1
  <2>2. CASE h = g /\ m = n
    BY <2>2
  <2> QED
    BY <1>2, <2>1, <2>2
<1>3. ASSUME NEW h \in Groups, NEW k \in Groups, NEW m \in Nat \ {0}, h # k,
             Holds(h, m)', Holds(k, m)'
      PROVE  {h, k} \cap repeated' # {}
  <2>1. CASE Holds(h, m) /\ Holds(k, m)
    BY <1>1, <1>3, <2>1
  <2>2. CASE h = g /\ m = n /\ Holds(k, m)
    <3>1. m <= number
      BY <1>1, <2>2
    <3> QED
      BY <2>2, <3>1
  <2>3. CASE k = g /\ m = n /\ Holds(h, m)
    <3>1. m <= number
      BY <1>1, <2>3
    <3> QED
      BY <2>3, <3>1
  <2>4. /\ Holds(h, m) \/ (h = g /\ m = n)
        /\ Holds(k, m) \/ (k = g /\ m = n)
    BY <1>3
  <2> QED
    BY <1>3, <2>1, <2>2, <2>3, <2>4
<1> QED
  BY <1>2, <1>3

LEMMA HeldStep == ASSUME ColoniesInv, [Colonies!Next]_colonies PROVE Held'
<1>0. /\ Colonies!TypeOK /\ Held /\ number \in Nat /\ worker \in [Workers -> Colonies!Handlings]
      /\ title \in [Groups -> Nat]
  BY DEF ColoniesInv, Colonies!TypeOK
<1>1. CASE Quiet
  <2>1. /\ UNCHANGED <<number, title, counted, repeated, raced>>
        /\ \A v \in Workers : worker'[v].step \in {"read", "subject"} => worker'[v] = worker[v]
    BY <1>1 DEF Quiet
  <2>2. ASSUME NEW h \in Groups, NEW m \in Nat, Holds(h, m)' PROVE Holds(h, m)
    BY <2>1, <2>2 DEF Holds
  <2>3. \A h \in Groups, m \in Nat : Holds(h, m)' => m <= number'
    BY <1>0, <2>1, <2>2 DEF Held
  <2>4. \A h, k \in Groups, m \in Nat \ {0} :
          h # k /\ Holds(h, m)' /\ Holds(k, m)' => {h, k} \cap repeated' # {}
    BY <1>0, <2>1, <2>2 DEF Held
  <2>5. \A w \in Workers :
          /\ worker'[w].step \in {"read", "subject"} => worker'[w].event[2] \in counted \/ raced
          /\ worker'[w].step = "read" => worker'[w].event[2] \in repeated
    BY <1>0, <2>1 DEF Held
  <2> QED
    BY <1>0, <2>1, <2>3, <2>4, <2>5 DEF Held
<1>2. ASSUME NEW w \in Workers, Counting(w) PROVE Held'
  <2> DEFINE g == worker[w].event[2]
  <2>1. g \in Groups
    BY <1>0, <1>2 DEF Counting, Colonies!Handlings, Colonies!Events, Colonies!Idle
  <2>2. /\ number' = number + 1 /\ counted' = counted \cup {g}
        /\ worker' = [worker EXCEPT ![w] = [event |-> @.event, step |-> "subject",
                                            colony |-> number + 1]]
        /\ UNCHANGED <<title, repeated, raced>>
    BY <1>2, Zenon DEF Counting, Colonies!Increment, Colonies!GroupOf
  <2>3. /\ worker'[w].step = "subject" /\ worker'[w].event = worker[w].event
        /\ worker'[w].colony = number + 1
        /\ \A v \in Workers : v # w => worker'[v] = worker[v]
    BY <1>0, <2>2
  <2>4. ASSUME NEW h \in Groups, NEW m \in Nat, Holds(h, m)'
        PROVE  Holds(h, m) \/ (h = g /\ m = number + 1)
    BY <2>2, <2>3, <2>4 DEF Holds
  <2> HIDE DEF g
  <2>5. /\ \A h \in Groups, m \in Nat : Holds(h, m)' => m <= number'
        /\ \A h, k \in Groups, m \in Nat \ {0} :
             h # k /\ Holds(h, m)' /\ Holds(k, m)' => {h, k} \cap repeated' # {}
    BY <1>0, <2>1, <2>2, <2>4, HeldKept
  <2>6. \A h \in Groups : title'[h] # 0 => h \in counted' \/ raced'
    BY <1>0, <2>2 DEF Held
  <2>7. \A v \in Workers :
          /\ worker'[v].step \in {"read", "subject"} =>
               worker'[v].event[2] \in counted' \/ raced'
          /\ worker'[v].step = "read" => worker'[v].event[2] \in repeated'
    BY <1>0, <2>2, <2>3 DEF Held, g
  <2> QED
    BY <2>5, <2>6, <2>7 DEF Held
<1>3. ASSUME NEW w \in Workers, Finding(w) PROVE Held'
  <2> DEFINE g == worker[w].event[2]
  <2>1. /\ worker[w].step = "insert"
        /\ worker' = [worker EXCEPT ![w].step = "read"]
        /\ repeated' = repeated \cup {g}
        /\ raced' = (raced \/ ~Colonies!Contains(recent, g))
        /\ UNCHANGED <<number, title, counted>>
    BY <1>3 DEF Finding, Colonies!GroupOf
  <2>2. g \in counted \/ raced'
    <3>1. CASE Colonies!Contains(recent, g)
      <4>1. recent \in Seq(counted)
        BY <1>0 DEF Colonies!TypeOK
      <4>2. PICK i \in 1..Len(recent) : recent[i] = g
        BY <3>1 DEF Colonies!Contains
      <4> QED
        BY <4>1, <4>2
    <3> QED
      BY <2>1, <3>1
  <2>3. raced => raced'
    BY <2>1
  <2>4. /\ worker'[w].step = "read" /\ worker'[w].event = worker[w].event
        /\ \A v \in Workers : v # w => worker'[v] = worker[v]
    BY <1>0, <2>1 DEF Colonies!Handlings, Colonies!Idle
  <2>5. ASSUME NEW h \in Groups, NEW m \in Nat, Holds(h, m)' PROVE Holds(h, m)
    BY <2>1, <2>4, <2>5 DEF Holds
  <2>6. \A h \in Groups, m \in Nat : Holds(h, m)' => m <= number'
    BY <1>0, <2>1, <2>5 DEF Held
  <2>7. \A h, k \in Groups, m \in Nat \ {0} :
          h # k /\ Holds(h, m)' /\ Holds(k, m)' => {h, k} \cap repeated' # {}
    BY <1>0, <2>1, <2>5 DEF Held
  <2>8. \A h \in Groups : title'[h] # 0 => h \in counted' \/ raced'
    BY <1>0, <2>1, <2>3 DEF Held
  <2>9. \A v \in Workers :
          /\ worker'[v].step \in {"read", "subject"} =>
               worker'[v].event[2] \in counted' \/ raced'
          /\ worker'[v].step = "read" => worker'[v].event[2] \in repeated'
    BY <1>0, <2>1, <2>2, <2>3, <2>4 DEF Held
  <2> QED
    BY <2>6, <2>7, <2>8, <2>9 DEF Held
<1>4. ASSUME NEW w \in Workers, Colonies!ReadCount(w) PROVE Held'
  <2> DEFINE g == worker[w].event[2]
  <2>1. /\ worker[w].step = "read"
        /\ worker' = [worker EXCEPT ![w] = [event |-> @.event, step |-> "subject",
                                            colony |-> number]]
        /\ UNCHANGED <<number, title, counted, repeated, raced>>
    BY <1>4 DEF Colonies!ReadCount, Colonies!At, Colonies!counter
  <2>2. g \in Groups
    BY <1>0, <2>1 DEF Colonies!Handlings, Colonies!Events, Colonies!Idle
  <2>3. /\ worker'[w].step = "subject" /\ worker'[w].event = worker[w].event
        /\ worker'[w].colony = number
        /\ \A v \in Workers : v # w => worker'[v] = worker[v]
    BY <1>0, <2>1
  <2>4. g \in repeated /\ (g \in counted \/ raced)
    BY <1>0, <2>1 DEF Held
  <2>5. ASSUME NEW h \in Groups, NEW m \in Nat, Holds(h, m)'
        PROVE  Holds(h, m) \/ (h = g /\ m = number)
    BY <2>1, <2>3, <2>5 DEF Holds
  <2> HIDE DEF g
  <2>6. /\ \A h \in Groups, m \in Nat : Holds(h, m)' => m <= number'
        /\ \A h, k \in Groups, m \in Nat \ {0} :
             h # k /\ Holds(h, m)' /\ Holds(k, m)' => {h, k} \cap repeated' # {}
    BY <1>0, <2>1, <2>2, <2>4, <2>5, HeldKept
  <2>7. \A v \in Workers :
          /\ worker'[v].step \in {"read", "subject"} =>
               worker'[v].event[2] \in counted' \/ raced'
          /\ worker'[v].step = "read" => worker'[v].event[2] \in repeated'
    BY <1>0, <2>1, <2>3, <2>4 DEF Held, g
  <2> QED
    BY <1>0, <2>1, <2>6, <2>7 DEF Held
<1>5. ASSUME NEW w \in Workers, Colonies!Rename(w) PROVE Held'
  <2> DEFINE g == worker[w].event[2]
  <2>1. /\ worker[w].step = "subject"
        /\ title' = [title EXCEPT ![g] = worker[w].colony]
        /\ worker' = [worker EXCEPT ![w] = [event |-> @.event, step |-> "tell"]]
        /\ UNCHANGED <<number, counted, repeated, raced>>
    BY <1>5 DEF Colonies!Rename, Colonies!At, Colonies!counter, Colonies!GroupOf
  <2>2. /\ worker'[w].step = "tell"
        /\ \A v \in Workers : v # w => worker'[v] = worker[v]
    BY <1>0, <2>1
  <2>3. \A h \in Groups : title'[h] = IF h = g THEN worker[w].colony ELSE title[h]
    BY <1>0, <2>1
  <2>4. ASSUME NEW h \in Groups, NEW m \in Nat, Holds(h, m)' PROVE Holds(h, m)
    <3>1. CASE title'[h] = m /\ h = g
      BY <2>1, <2>3, <3>1 DEF Holds
    <3>2. CASE title'[h] = m /\ h # g
      BY <2>3, <3>2 DEF Holds
    <3>3. CASE \E v \in Workers : /\ worker'[v].step = "subject"
                                  /\ worker'[v].event[2] = h /\ worker'[v].colony = m
      BY <2>2, <3>3 DEF Holds
    <3> QED
      BY <2>4, <3>1, <3>2, <3>3 DEF Holds
  <2>5. \A h \in Groups, m \in Nat : Holds(h, m)' => m <= number'
    BY <1>0, <2>1, <2>4 DEF Held
  <2>6. \A h, k \in Groups, m \in Nat \ {0} :
          h # k /\ Holds(h, m)' /\ Holds(k, m)' => {h, k} \cap repeated' # {}
    BY <1>0, <2>1, <2>4 DEF Held
  <2>7. \A h \in Groups : title'[h] # 0 => h \in counted' \/ raced'
    BY <1>0, <2>1, <2>3 DEF Held
  <2>8. \A v \in Workers :
          /\ worker'[v].step \in {"read", "subject"} =>
               worker'[v].event[2] \in counted' \/ raced'
          /\ worker'[v].step = "read" => worker'[v].event[2] \in repeated'
    BY <1>0, <2>1, <2>2 DEF Held
  <2> QED
    BY <2>5, <2>6, <2>7, <2>8 DEF Held
<1> QED
  BY <1>0, <1>1, <1>2, <1>3, <1>4, <1>5, ColonySteps

LEMMA ColoniesKept == ASSUME ColoniesInv PROVE ColoniesCounted
<1>0. Colonies!TypeOK /\ Counts /\ Held
  BY DEF ColoniesInv
<1>1. number \in Colonies!Cardinality(counted)..(Colonies!Cardinality(counted) + forgotten)
  <2>1. Remembered \subseteq counted
    BY <1>0 DEF Colonies!TypeOK, Remembered, Elements
  <2>2. /\ Cardinality(Remembered) <= Cardinality(counted)
        /\ Cardinality(Remembered) \in Nat /\ Cardinality(counted) \in Nat
    BY <1>0, <2>1, RememberedFinite, FS_Subset, FS_CardinalityType
  <2>3. number \in Nat /\ forgotten \in Nat
    BY <1>0 DEF Colonies!TypeOK
  <2> QED
    BY <1>0, <2>2, <2>3, ColoniesCardinality DEF Counts
<1>2. \A g, h \in Groups : g # h /\ title[g] = title[h] /\ title[g] # 0 =>
        {g, h} \cap repeated # {}
  BY <1>0 DEF Colonies!TypeOK, Held, Holds
<1> QED
  BY <1>0, <1>1, <1>2 DEF Held, ColoniesCounted, Colonies!ColoniesCounted

LEMMA ColoniesFollowed ==
    /\ Init => Colonies!Init
    /\ [Next]_vars => [Colonies!Next]_colonies
BY DEF Init, Next, vars, creds, limits, greetings, colonies, supervisor, mentions

\* The events, the deliveries at work and the counter keep their shape (GroupColonies).
THEOREM ColoniesTyped == Spec => []Colonies!TypeOK
<1>1. ColoniesInv /\ [Next]_vars => ColoniesInv'
  BY ColoniesFollowed, ColoniesTypeStep, CountsStep, HeldStep DEF ColoniesInv
<1>2. Init => ColoniesInv
  BY ColoniesFollowed, ColoniesInit
<1>3. ColoniesInv => Colonies!TypeOK
  BY DEF ColoniesInv
<1> QED
  BY <1>1, <1>2, <1>3, PTL DEF Spec

\* Over redeliveries and colonies made at once, the count is the number of colonies
\* but for the keys the counter forgot, and two groups share a number only when one
\* of them was taken for counted before (IdempotentCounter, StealGroupService).
THEOREM ColoniesNumbered == Spec => []ColoniesCounted
<1>1. ColoniesInv /\ [Next]_vars => ColoniesInv'
  BY ColoniesFollowed, ColoniesTypeStep, CountsStep, HeldStep DEF ColoniesInv
<1>2. Init => ColoniesInv
  BY ColoniesFollowed, ColoniesInit
<1> QED
  BY <1>1, <1>2, ColoniesKept, PTL DEF Spec

-----------------------------------------------------------------------------
(* The mention lists.  Deleting a list moves the others up, which keeps    *)
(* them apart: their ranks are the positions of the new array.             *)

\* The ranks of some of the first positions are 1, 2, ... without a gap.
LEMMA Ranks ==
    ASSUME NEW L \in Nat, NEW K \in SUBSET (1..L)
    PROVE  /\ Cardinality(K) \in Nat
           /\ \A n \in 1..Cardinality(K) : \E i \in K : Cardinality(K \cap 1..i) = n
<1> DEFINE m == Cardinality(K)
           rank == [i \in K |-> Cardinality(K \cap 1..i)]
<1>1. IsFiniteSet(K)
  <2>1. IsFiniteSet(1..L)
    BY FS_Interval
  <2> QED
    BY <2>1, FS_Subset
<1>2. m \in Nat
  BY <1>1, FS_CardinalityType
<1>3. ASSUME NEW i \in K
      PROVE  /\ IsFiniteSet(K \cap 1..i) /\ Cardinality(K \cap 1..i) \in 1..m
  <2>1. IsFiniteSet(K \cap 1..i) /\ Cardinality(K \cap 1..i) <= m
    BY <1>1, FS_Intersection
  <2>2. Cardinality(K \cap 1..i) \in Nat
    BY <2>1, FS_CardinalityType
  <2>3. K \cap 1..i # {}
    <3>1. i \in 1..i
      OBVIOUS
    <3> QED
      BY <3>1
  <2>4. Cardinality(K \cap 1..i) # 0
    BY <2>1, <2>3, FS_EmptySet
  <2> QED
    BY <1>2, <2>1, <2>2, <2>4
<1>4. ASSUME NEW i \in K, NEW j \in K, i < j PROVE rank[i] # rank[j]
  <2>1. K \cap 1..i \in SUBSET (K \cap 1..j) /\ j \in K \cap 1..j /\ j \notin 1..i
    BY <1>4
  <2>2. K \cap 1..i # K \cap 1..j
    BY <2>1
  <2> QED
    BY <1>3, <2>1, <2>2, FS_Subset
<1>5. rank \in Injection(K, 1..m)
  <2>1. rank \in [K -> 1..m]
    BY <1>3
  <2>2. \A i, j \in K : rank[i] = rank[j] => i = j
    <3> HIDE DEF rank
    <3> QED
      BY <1>4
  <2> QED
    BY <2>1, <2>2 DEF Injection, IsInjective
<1>6. IsFiniteSet(1..m) /\ Cardinality(1..m) = m
  BY <1>2, FS_Interval
<1>7. rank \in Surjection(K, 1..m)
  <2> HIDE DEF rank, m
  <2>1. Cardinality(K) = Cardinality(1..m) <=> rank \in Surjection(K, 1..m)
    BY <1>5, <1>6, FS_Injection
  <2> QED
    BY <1>6, <2>1 DEF m
<1>8. \A n \in 1..m : \E i \in K : rank[i] = n
  BY <1>7 DEF Surjection
<1> QED
  BY <1>2, <1>8

MentionsInv == Mentions!TypeOK /\ Mentions!NamesUnique

LEMMA MentionsInit == ASSUME Mentions!Init PROVE MentionsInv
<1>1. lists \in Seq(Mentions!Lists) /\ DOMAIN lists = {}
  BY DEF Mentions!Init
<1>2. hasLists \in BOOLEAN /\ edits \subseteq Mentions!Edits /\ made \in 0..MaxEdits
  <2>1. 0 \in 0..MaxEdits
    BY MentionsAssumption
  <2>2. hasLists = FALSE /\ edits = {} /\ made = 0
    BY DEF Mentions!Init
  <2> QED
    BY <2>1, <2>2
<1>3. Mentions!NamesUnique
  BY <1>1 DEF Mentions!NamesUnique
<1> QED
  BY <1>1, <1>2, <1>3 DEF MentionsInv, Mentions!TypeOK

\* Every array a step writes is the old one, the old one with participants changed,
\* with a name changed to one not taken, with a list of such a name added, or without
\* the lists of a name; or the first of the chat.
LEMMA AppendsNew ==
    ASSUME MentionsInv, NEW l \in Mentions!Lists, ~Mentions!Taken(l.name),
           lists' = Append(lists, l)
    PROVE  lists' \in Seq(Mentions!Lists) /\ Mentions!NamesUnique'
<1>1. lists \in Seq(Mentions!Lists) /\ Mentions!NamesUnique
  BY DEF MentionsInv, Mentions!TypeOK
<1>2. /\ lists' \in Seq(Mentions!Lists) /\ Len(lists') = Len(lists) + 1
      /\ lists'[Len(lists) + 1] = l /\ \A i \in 1..Len(lists) : lists'[i] = lists[i]
  BY <1>1, AppendProperties
<1>3. /\ DOMAIN lists = 1..Len(lists) /\ Len(lists) \in Nat
      /\ DOMAIN lists' = 1..(Len(lists) + 1)
  BY <1>1, <1>2
<1>4. \A i \in DOMAIN lists : lists[i].name # l.name
  BY DEF Mentions!Taken
<1>5. Mentions!NamesUnique'
  BY <1>1, <1>2, <1>3, <1>4 DEF Mentions!NamesUnique
<1> QED
  BY <1>2, <1>5

LEMMA Indexed ==
    ASSUME MentionsInv, NEW name, Mentions!Taken(name)
    PROVE  /\ Mentions!IndexOf(name) \in DOMAIN lists
           /\ lists[Mentions!IndexOf(name)] \in Mentions!Lists
<1>1. lists \in Seq(Mentions!Lists) /\ Mentions!NamesUnique
  BY DEF MentionsInv, Mentions!TypeOK
<1>2. PICK i \in DOMAIN lists : lists[i].name = name
  BY DEF Mentions!Taken
<1>3. \A j \in DOMAIN lists : lists[j].name = name => i <= j
  BY <1>1, <1>2 DEF Mentions!NamesUnique
<1>4. Mentions!IndexOf(name) \in DOMAIN lists
  BY <1>2, <1>3 DEF Mentions!IndexOf
<1> QED
  BY <1>1, <1>4

LEMMA ChangesOne ==
    ASSUME MentionsInv, NEW name, Mentions!Taken(name), NEW people \in SUBSET People,
           lists' = [lists EXCEPT ![Mentions!IndexOf(name)].participants = people]
    PROVE  lists' \in Seq(Mentions!Lists) /\ Mentions!NamesUnique'
<1>1. lists \in Seq(Mentions!Lists) /\ Mentions!NamesUnique
  BY DEF MentionsInv, Mentions!TypeOK
<1> DEFINE k == Mentions!IndexOf(name)
<1>2. DOMAIN lists = 1..Len(lists) /\ Len(lists) \in Nat
      /\ \A i \in DOMAIN lists : lists[i] \in Mentions!Lists
  BY <1>1
<1>3. k \in DOMAIN lists
  BY Indexed
<1>4. lists' = [lists EXCEPT ![k] = [lists[k] EXCEPT !.participants = people]]
  OBVIOUS
<1> HIDE DEF k
<1>5. /\ [lists[k] EXCEPT !.participants = people] \in Mentions!Lists
      /\ [lists[k] EXCEPT !.participants = people].name = lists[k].name
  BY <1>2, <1>3 DEF Mentions!Lists
<1>6. lists' \in Seq(Mentions!Lists)
  <2>1. lists' \in [1..Len(lists) -> Mentions!Lists]
    BY <1>2, <1>3, <1>4, <1>5
  <2> QED
    BY <1>2, <2>1
<1>7. /\ DOMAIN lists' = DOMAIN lists
      /\ \A i \in DOMAIN lists : lists'[i].name = lists[i].name
  BY <1>2, <1>3, <1>4, <1>5
<1>8. Mentions!NamesUnique'
  BY <1>1, <1>7 DEF Mentions!NamesUnique
<1> QED
  BY <1>6, <1>8

LEMMA RenamesApart ==
    ASSUME MentionsInv, NEW old \in Names, NEW new \in Names, Mentions!Rename(old, new)
    PROVE  lists' \in Seq(Mentions!Lists) /\ Mentions!NamesUnique'
<1>1. lists \in Seq(Mentions!Lists) /\ Mentions!NamesUnique
  BY DEF MentionsInv, Mentions!TypeOK
<1>2. /\ DOMAIN lists = 1..Len(lists) /\ Len(lists) \in Nat
      /\ \A i \in DOMAIN lists : lists[i] \in Mentions!Lists
  BY <1>1
<1>3. /\ lists' = [i \in DOMAIN lists |->
           IF lists[i].name = old THEN [lists[i] EXCEPT !.name = new] ELSE lists[i]]
      /\ \A i \in DOMAIN lists : lists[i].name # new
  BY DEF Mentions!Rename, Mentions!Taken
<1>4. ASSUME NEW i \in DOMAIN lists
      PROVE  /\ lists'[i] \in Mentions!Lists
             /\ lists'[i].name = IF lists[i].name = old THEN new ELSE lists[i].name
  BY <1>2, <1>3 DEF Mentions!Lists
<1>5. DOMAIN lists' = DOMAIN lists
  BY <1>3
<1>6. lists' \in Seq(Mentions!Lists)
  <2>1. lists' \in [1..Len(lists) -> Mentions!Lists]
    BY <1>2, <1>3, <1>4
  <2> QED
    BY <1>2, <2>1
<1>7. Mentions!NamesUnique'
  BY <1>1, <1>3, <1>4, <1>5 DEF Mentions!NamesUnique
<1> QED
  BY <1>6, <1>7

LEMMA DeletesApart ==
    ASSUME MentionsInv, NEW name \in Names, Mentions!Delete(name)
    PROVE  lists' \in Seq(Mentions!Lists) /\ Mentions!NamesUnique'
<1>1. lists \in Seq(Mentions!Lists) /\ Mentions!NamesUnique
  BY DEF MentionsInv, Mentions!TypeOK
<1> DEFINE K == Mentions!Others(name)
           place(n) == CHOOSE i \in K : Cardinality(K \cap 1..i) = n
<1>2. /\ K \in SUBSET (1..Len(lists)) /\ DOMAIN lists = 1..Len(lists) /\ Len(lists) \in Nat
      /\ \A i \in DOMAIN lists : lists[i] \in Mentions!Lists
  BY <1>1 DEF Mentions!Others
<1>3. lists' = [n \in 1..Cardinality(K) |-> lists[place(n)]]
  BY Zenon DEF Mentions!Delete, Mentions!Cardinality, Cardinality
<1>4. /\ Cardinality(K) \in Nat
      /\ \A n \in 1..Cardinality(K) : place(n) \in K /\ Cardinality(K \cap 1..place(n)) = n
  <2> HIDE DEF K
  <2>1. /\ Cardinality(K) \in Nat
        /\ \A n \in 1..Cardinality(K) : \E i \in K : Cardinality(K \cap 1..i) = n
    BY <1>2, Ranks
  <2> QED
    BY <2>1
<1> HIDE DEF K, place
<1>5. lists' \in Seq(Mentions!Lists)
  <2>1. \A n \in 1..Cardinality(K) : lists[place(n)] \in Mentions!Lists
    BY <1>2, <1>4
  <2>2. lists' \in [1..Cardinality(K) -> Mentions!Lists]
    BY <1>3, <2>1
  <2> QED
    BY <1>4, <2>2
<1>6. Mentions!NamesUnique'
  <2>1. DOMAIN lists' = 1..Cardinality(K)
    BY <1>3
  <2>2. ASSUME NEW n \in 1..Cardinality(K), NEW m \in 1..Cardinality(K),
               lists'[n].name = lists'[m].name
        PROVE  n = m
    <3>1. lists[place(n)].name = lists[place(m)].name
      BY <1>3, <2>2
    <3>2. place(n) = place(m)
      BY <1>1, <1>2, <1>4, <3>1 DEF Mentions!NamesUnique
    <3> QED
      BY <1>4, <3>2
  <2> QED
    BY <2>1, <2>2 DEF Mentions!NamesUnique
<1> QED
  BY <1>5, <1>6

LEMMA MentionsStep == ASSUME MentionsInv, [Mentions!Next]_mentions PROVE MentionsInv'
<1>0. /\ hasLists \in BOOLEAN /\ lists \in Seq(Mentions!Lists) /\ edits \subseteq Mentions!Edits
      /\ made \in 0..MaxEdits /\ Mentions!NamesUnique
  BY DEF MentionsInv, Mentions!TypeOK
<1>1. ASSUME Mentions!Edit PROVE made' \in 0..MaxEdits
  BY <1>0, <1>1, MentionsAssumption DEF Mentions!Edit
<1>2. ASSUME UNCHANGED lists PROVE lists' \in Seq(Mentions!Lists) /\ Mentions!NamesUnique'
  BY <1>0, <1>2 DEF Mentions!NamesUnique
<1>3. ASSUME NEW e \in edits, Mentions!Finish(e) PROVE edits' \subseteq Mentions!Edits
  BY <1>0, <1>3 DEF Mentions!Finish
<1>4. ASSUME NEW e \in edits, NEW next \in {"insert", "retry"}, Mentions!GoOn(e, next)
      PROVE  edits' \subseteq Mentions!Edits
  <2>1. [e EXCEPT !.step = next] \in Mentions!Edits
    BY <1>0, <1>4 DEF Mentions!Edits
  <2> QED
    BY <1>0, <1>4, <2>1 DEF Mentions!GoOn
<1>5. ASSUME NEW name \in Names, NEW people \in SUBSET People,
             Mentions!Create(name, people) \/ Mentions!ExitRead(name, people)
      PROVE  MentionsInv'
  <2>1. \A next \in {"update", "pull"} :
          [step |-> next, list |-> [name |-> name, participants |-> people]] \in Mentions!Edits
    BY DEF Mentions!Edits, Mentions!Lists
  <2>2. edits' \subseteq Mentions!Edits
    BY <1>0, <1>5, <2>1 DEF Mentions!Create, Mentions!ExitRead
  <2> QED
    BY <1>0, <1>1, <1>2, <1>5, <2>2
    DEF Mentions!Create, Mentions!ExitRead, MentionsInv, Mentions!TypeOK
<1>6. ASSUME NEW name \in Names, NEW people \in SUBSET People, Mentions!Add(name, people)
      PROVE  MentionsInv'
  <2> DEFINE all == lists[Mentions!IndexOf(name)].participants \cup people
  <2>1. Mentions!Taken(name) /\ Mentions!Edit /\ UNCHANGED <<hasLists, edits>>
    BY <1>6 DEF Mentions!Add
  <2>2. all \in SUBSET People
    BY <1>0, <2>1, Indexed DEF MentionsInv, Mentions!Lists
  <2>3. lists' = [lists EXCEPT ![Mentions!IndexOf(name)].participants = all]
    BY <1>6 DEF Mentions!Add
  <2> HIDE DEF all
  <2>4. lists' \in Seq(Mentions!Lists) /\ Mentions!NamesUnique'
    BY <2>1, <2>2, <2>3, ChangesOne
  <2> QED
    BY <1>0, <1>1, <2>1, <2>4 DEF MentionsInv, Mentions!TypeOK
<1>7. ASSUME NEW e \in edits, Mentions!ExitPull(e) PROVE MentionsInv'
  <2> DEFINE left == lists[Mentions!IndexOf(e.list.name)].participants \ e.list.participants
  <2>1. Mentions!Finish(e) /\ UNCHANGED <<hasLists, made>>
    BY <1>7 DEF Mentions!ExitPull
  <2>2. CASE Mentions!Taken(e.list.name)
    <3>1. left \in SUBSET People
      BY <1>0, <2>2, Indexed DEF MentionsInv, Mentions!Lists
    <3>2. lists' = [lists EXCEPT ![Mentions!IndexOf(e.list.name)].participants = left]
      BY <1>7, <2>2 DEF Mentions!ExitPull
    <3> HIDE DEF left
    <3>3. lists' \in Seq(Mentions!Lists) /\ Mentions!NamesUnique'
      BY <2>2, <3>1, <3>2, ChangesOne
    <3> QED
      BY <1>0, <1>3, <2>1, <3>3 DEF MentionsInv, Mentions!TypeOK
  <2>3. CASE ~Mentions!Taken(e.list.name)
    <3>1. UNCHANGED lists
      BY <1>7, <2>3 DEF Mentions!ExitPull
    <3> QED
      BY <1>0, <1>2, <1>3, <2>1, <3>1 DEF MentionsInv, Mentions!TypeOK
  <2> QED
    BY <2>2, <2>3
<1>8. ASSUME NEW old \in Names, NEW new \in Names, Mentions!Rename(old, new)
      PROVE  MentionsInv'
  <2>1. Mentions!Edit /\ UNCHANGED <<hasLists, edits>>
    BY <1>8 DEF Mentions!Rename
  <2> QED
    BY <1>0, <1>1, <1>8, <2>1, RenamesApart DEF MentionsInv, Mentions!TypeOK
<1>9. ASSUME NEW name \in Names, Mentions!Delete(name) PROVE MentionsInv'
  <2>1. Mentions!Edit /\ UNCHANGED <<hasLists, edits>>
    BY <1>9 DEF Mentions!Delete
  <2> QED
    BY <1>0, <1>1, <1>9, <2>1, DeletesApart DEF MentionsInv, Mentions!TypeOK
<1>10. ASSUME NEW e \in edits,
              Mentions!CreateUpdate(e) \/ Mentions!CreateInsert(e) \/ Mentions!CreateRetry(e)
       PROVE  MentionsInv'
  <2>1. e.list \in Mentions!Lists
    BY <1>0 DEF Mentions!Edits
  <2>2. /\ hasLists' \in BOOLEAN /\ UNCHANGED made
        /\ \/ Mentions!Finish(e) \/ Mentions!GoOn(e, "insert") \/ Mentions!GoOn(e, "retry")
    BY <1>0, <1>10 DEF Mentions!CreateUpdate, Mentions!CreateInsert, Mentions!CreateRetry
  <2>3. \/ UNCHANGED lists \/ lists' = <<e.list>>
        \/ lists' = Append(lists, e.list) /\ ~Mentions!Taken(e.list.name)
    BY <1>10
    DEF Mentions!CreateUpdate, Mentions!CreateInsert, Mentions!CreateRetry, Mentions!Refuses
  <2>4. CASE lists' = <<e.list>>
    <3>1. lists' \in Seq(Mentions!Lists) /\ DOMAIN lists' = {1}
      BY <2>1, <2>4
    <3> QED
      BY <1>0, <1>3, <1>4, <2>2, <3>1 DEF MentionsInv, Mentions!TypeOK, Mentions!NamesUnique
  <2>5. CASE UNCHANGED lists
    BY <1>0, <1>2, <1>3, <1>4, <2>2, <2>5 DEF MentionsInv, Mentions!TypeOK
  <2>6. CASE lists' = Append(lists, e.list) /\ ~Mentions!Taken(e.list.name)
    <3>1. lists' \in Seq(Mentions!Lists) /\ Mentions!NamesUnique'
      BY <2>1, <2>6, AppendsNew
    <3> QED
      BY <1>3, <1>4, <1>0, <2>2, <3>1 DEF MentionsInv, Mentions!TypeOK
  <2> QED
    BY <2>3, <2>4, <2>5, <2>6
<1>11. ASSUME NEW e \in edits, Mentions!Fail(e) PROVE MentionsInv'
  BY <1>0, <1>2, <1>3, <1>11 DEF Mentions!Fail, MentionsInv, Mentions!TypeOK
<1>12. CASE UNCHANGED mentions
  BY <1>0, <1>2, <1>12 DEF mentions, MentionsInv, Mentions!TypeOK
<1> QED
  BY <1>5, <1>6, <1>7, <1>8, <1>9, <1>10, <1>11, <1>12 DEF Mentions!Next

LEMMA MentionsFollowed ==
    /\ Init => Mentions!Init
    /\ [Next]_vars => [Mentions!Next]_mentions
BY DEF Init, Next, vars, creds, limits, greetings, colonies, supervisor, mentions

\* The array is a sequence of lists, the edits under way name lists (MentionLists).
THEOREM MentionsTyped == Spec => []Mentions!TypeOK
<1>1. MentionsInv /\ [Next]_vars => MentionsInv'
  BY MentionsFollowed, MentionsStep
<1>2. Init => MentionsInv
  BY MentionsFollowed, MentionsInit
<1>3. MentionsInv => Mentions!TypeOK
  BY DEF MentionsInv
<1> QED
  BY <1>1, <1>2, <1>3, PTL DEF Spec

\* Whatever members create, rename and delete at once, no two lists of a chat share
\* a name (CreateMentionList and its siblings).
THEOREM NamesStayApart == Spec => []NamesUnique
<1>1. MentionsInv /\ [Next]_vars => MentionsInv'
  BY MentionsFollowed, MentionsStep
<1>2. Init => MentionsInv
  BY MentionsFollowed, MentionsInit
<1>3. MentionsInv => NamesUnique
  BY DEF MentionsInv, NamesUnique
<1> QED
  BY <1>1, <1>2, <1>3, PTL DEF Spec

-----------------------------------------------------------------------------
LEMMA GreetingsFollowed ==
    /\ Init => Greetings!Init
    /\ [Next]_vars => [Greetings!Next]_greetings
  BY DEF Init, Next, vars, greetings

LEMMA SupervisorFollowed ==
    /\ Init => Supervisor!Init
    /\ [Next]_vars => [Supervisor!Next]_supervisor
  BY DEF Init, Next, vars, supervisor

-----------------------------------------------------------------------------
(*                             The birthday loop                           *)
(* A celebration is of a day that has come, and a chat is only named while *)
(* its greeting is being sent.                                             *)
Located == /\ step \in {"celebrate", "send"} => today \in Greetings!Days /\ today <= day
           /\ step = "send" <=> chat # NoChat
           /\ until <= day + 1

LoopTyped == Greetings!TypeOK /\ Located

LEMMA LoopTypedInit == ASSUME Greetings!Init PROVE LoopTyped
  BY GreetingsAssumption DEF Greetings!Init, LoopTyped, Greetings!TypeOK, Located, Greetings!Days

LEMMA LoopTypedStep == ASSUME LoopTyped, [Greetings!Next]_greetings PROVE LoopTyped'
<1> USE GreetingsAssumption DEF LoopTyped, Greetings!TypeOK, Located, Greetings!Days
<1>1. CASE Greetings!Start \/ Greetings!Celebrate \/ Greetings!Celebrated
  <2>1. CASE Greetings!Start
    BY <2>1 DEF Greetings!Start, Greetings!AfterStart
  <2>2. CASE Greetings!Celebrate
    BY <2>2 DEF Greetings!Celebrate
  <2>3. CASE Greetings!Celebrated
    BY <2>3 DEF Greetings!Celebrated, Greetings!Sleep
  <2> QED
    BY <1>1, <2>1, <2>2, <2>3
<1>2. ASSUME NEW c \in Chats, Greetings!Claim(c) \/ Greetings!ClaimUnanswered(c) PROVE LoopTyped'
  <2>1. step = "celebrate" /\ today \in Greetings!Days /\ <<c, today>> \in Chats \X Greetings!Days
    BY <1>2 DEF Greetings!Claim, Greetings!ClaimUnanswered
  <2>2. claimed' \subseteq Chats \X Greetings!Days
    BY <1>2, <2>1 DEF Greetings!Claim, Greetings!ClaimUnanswered
  <2>3. CASE Greetings!Claim(c)
    BY <2>1, <2>2, <2>3 DEF Greetings!Claim
  <2>4. CASE Greetings!ClaimUnanswered(c)
    BY <2>1, <2>2, <2>4 DEF Greetings!ClaimUnanswered, Greetings!Trouble
  <2> QED
    BY <1>2, <2>3, <2>4
<1>3. CASE Greetings!Send
  <2>1. <<chat, today>> \in Chats \X Greetings!Days
    BY <1>3 DEF Greetings!Send
  <2>2. greeted' \in [Chats \X Greetings!Days -> Nat]
    BY <1>3, <2>1 DEF Greetings!Send
  <2> QED
    BY <1>3, <2>2 DEF Greetings!Send
<1>4. CASE Greetings!Fails \/ Greetings!Stop
  <2>1. excused' \subseteq Chats \X Greetings!Days
    BY <1>4 DEF Greetings!Fails, Greetings!Stop
  <2>2. CASE Greetings!Fails
    BY <2>1, <2>2 DEF Greetings!Fails, Greetings!Sleep, Greetings!Trouble
  <2>3. CASE Greetings!Stop
    BY <2>1, <2>3 DEF Greetings!Stop, Greetings!Trouble
  <2> QED
    BY <1>4, <2>2, <2>3
<1>5. CASE Greetings!Midnight
  <2>1. excused' \subseteq Chats \X Greetings!Days /\ day' = day + 1 /\ day' \in Greetings!Days
    BY <1>5 DEF Greetings!Midnight
  <2> QED
    BY <1>5, <2>1 DEF Greetings!Midnight, Greetings!loop
<1>6. CASE UNCHANGED greetings
  BY <1>6 DEF greetings
<1> QED
  BY <1>1, <1>2, <1>3, <1>4, <1>5, <1>6 DEF Greetings!Next

\* The loop names a chat while it greets it and claims for days that have come
\* (BirthdayScheduler).
THEOREM GreetingsTyped == Spec => []Greetings!TypeOK
<1>1. LoopTyped => Greetings!TypeOK
  BY DEF LoopTyped
<1> QED
  BY <1>1, LoopTypedInit, LoopTypedStep, GreetingsFollowed, PTL DEF Spec

-----------------------------------------------------------------------------
Sending(c, d) == step = "send" /\ chat = c /\ today = d
Settled(c, d) == greeted[<<c, d>>] > 0 \/ <<c, d>> \in excused

(* Unless Redis was down, who was greeted was claimed, and who is about to *)
(* be greeted was claimed and not greeted before.                          *)
Once == \A c \in Chats, d \in Greetings!Days : d \notin redisDown =>
    /\ greeted[<<c, d>>] <= 1
    /\ greeted[<<c, d>>] > 0 \/ Sending(c, d) => <<c, d>> \in claimed
    /\ Sending(c, d) => greeted[<<c, d>>] = 0

(* A claim stands for a greeting that was sent, is being sent or is        *)
(* excused; a celebration has still to come to a chat or has settled it; a *)
(* loop that sleeps has settled the day it sleeps through.                 *)
ClaimsKept ==
    /\ \A c \in Chats, d \in Greetings!Days : <<c, d>> \in claimed => Settled(c, d) \/ Sending(c, d)
    /\ step \in {"celebrate", "send"} =>
         \A c \in Chats : /\ c \in todo \/ Sending(c, today) \/ Settled(c, today)
                          /\ today < day => <<c, day>> \in excused
    /\ step = "sleep" /\ day < until => \A c \in Chats : Settled(c, day)
    /\ \A c \in Chats, d \in Greetings!Days : d < day => Settled(c, d)

LEMMA OnceInit == ASSUME Greetings!Init PROVE Once
  BY GreetingsAssumption DEF Greetings!Init, Once, Sending, Greetings!Days

LEMMA OnceStep == ASSUME LoopTyped, Once, [Greetings!Next]_greetings PROVE Once'
<1> SUFFICES ASSUME NEW c \in Chats, NEW d \in Greetings!Days, d \notin redisDown'
             PROVE  /\ greeted'[<<c, d>>] <= 1
                    /\ greeted'[<<c, d>>] > 0 \/ Sending(c, d)' => <<c, d>> \in claimed'
                    /\ Sending(c, d)' => greeted'[<<c, d>>] = 0
  BY DEF Once
<1>t. /\ greeted \in [Chats \X Greetings!Days -> Nat] /\ <<c, d>> \in Chats \X Greetings!Days
      /\ greeted[<<c, d>>] \in Nat
  BY DEF LoopTyped, Greetings!TypeOK
<1>1. redisDown \subseteq redisDown' /\ claimed \subseteq claimed'
  BY DEF Greetings!Next, Greetings!Start, Greetings!Celebrate, Greetings!Claim,
         Greetings!ClaimUnanswered, Greetings!Send, Greetings!Celebrated, Greetings!Fails,
         Greetings!Stop, Greetings!Midnight, greetings
<1>2. /\ greeted[<<c, d>>] <= 1
      /\ greeted[<<c, d>>] > 0 \/ Sending(c, d) => <<c, d>> \in claimed
      /\ Sending(c, d) => greeted[<<c, d>>] = 0
  BY <1>1 DEF Once
<1>3. ASSUME UNCHANGED greeted, Sending(c, d)' => Sending(c, d)
      PROVE  /\ greeted'[<<c, d>>] <= 1
             /\ greeted'[<<c, d>>] > 0 \/ Sending(c, d)' => <<c, d>> \in claimed'
             /\ Sending(c, d)' => greeted'[<<c, d>>] = 0
  BY <1>1, <1>2, <1>3
<1>4. CASE \/ Greetings!Start \/ Greetings!Celebrate \/ Greetings!Celebrated \/ Greetings!Fails
           \/ Greetings!Stop \/ Greetings!Midnight \/ UNCHANGED greetings
  BY <1>3, <1>4 DEF Greetings!Start, Greetings!AfterStart, Greetings!Celebrate,
                    Greetings!Celebrated, Greetings!Fails, Greetings!Stop, Greetings!Sleep,
                    Greetings!Midnight, Greetings!loop, greetings, Sending
<1>5. ASSUME NEW e \in Chats, Greetings!Claim(e)
      PROVE  /\ greeted'[<<c, d>>] <= 1
             /\ greeted'[<<c, d>>] > 0 \/ Sending(c, d)' => <<c, d>> \in claimed'
             /\ Sending(c, d)' => greeted'[<<c, d>>] = 0
  <2>1. UNCHANGED <<greeted, today>> /\ claimed' = claimed \cup {<<e, today>>}
    BY <1>5 DEF Greetings!Claim
  <2>2. Sending(c, d)' => e = c /\ today = d /\ <<c, d>> \notin claimed
    BY <1>5 DEF Greetings!Claim, Sending
  <2> QED
    BY <1>t, <1>2, <2>1, <2>2
<1>6. ASSUME NEW e \in Chats, Greetings!ClaimUnanswered(e)
      PROVE  UNCHANGED greeted /\ ~Sending(c, d)'
  BY <1>6 DEF Greetings!ClaimUnanswered, Sending
<1>7. CASE Greetings!Send
  <2>1. step' = "celebrate" /\ greeted' = [greeted EXCEPT ![<<chat, today>>] = @ + 1]
        /\ UNCHANGED claimed /\ step = "send"
    BY <1>7 DEF Greetings!Send
  <2>2. CASE Sending(c, d)
    <3>1. greeted'[<<c, d>>] = greeted[<<c, d>>] + 1
      BY <1>t, <2>1, <2>2 DEF Sending
    <3> QED
      BY <1>2, <2>1, <2>2, <3>1 DEF Sending
  <2>3. CASE ~Sending(c, d)
    <3>1. greeted'[<<c, d>>] = greeted[<<c, d>>]
      BY <1>t, <2>1, <2>3 DEF Sending
    <3> QED
      BY <1>2, <2>1, <3>1 DEF Sending
  <2> QED
    BY <2>2, <2>3
<1> QED
  BY <1>3, <1>4, <1>5, <1>6, <1>7 DEF Greetings!Next

LEMMA ClaimsKeptInit == ASSUME Greetings!Init PROVE ClaimsKept
  BY GreetingsAssumption DEF Greetings!Init, ClaimsKept, Sending, Greetings!Days

\* What is settled stays settled.
LEMMA SettledStays ==
    ASSUME LoopTyped, [Greetings!Next]_greetings,
           NEW c \in Chats, NEW d \in Greetings!Days, Settled(c, d)
    PROVE  Settled(c, d)'
<1>t. greeted \in [Chats \X Greetings!Days -> Nat] /\ <<c, d>> \in Chats \X Greetings!Days
  BY DEF LoopTyped, Greetings!TypeOK
<1>1. excused \subseteq excused'
  BY DEF Greetings!Next, Greetings!Start, Greetings!Celebrate, Greetings!Claim,
         Greetings!ClaimUnanswered, Greetings!Send, Greetings!Celebrated, Greetings!Fails,
         Greetings!Stop, Greetings!Midnight, greetings
<1>2. CASE Greetings!Send
  <2>1. greeted' = [greeted EXCEPT ![<<chat, today>>] = @ + 1]
    BY <1>2 DEF Greetings!Send
  <2>2. greeted'[<<c, d>>] \in {greeted[<<c, d>>], greeted[<<c, d>>] + 1}
        /\ greeted[<<c, d>>] \in Nat
    BY <1>t, <2>1
  <2> QED
    BY <1>t, <1>1, <2>2 DEF Settled
<1>3. CASE ~Greetings!Send
  <2>1. UNCHANGED greeted
    BY <1>3 DEF Greetings!Next, Greetings!Start, Greetings!Celebrate, Greetings!Claim,
                Greetings!ClaimUnanswered, Greetings!Celebrated, Greetings!Fails, Greetings!Stop,
                Greetings!Midnight, greetings
  <2> QED
    BY <1>1, <2>1 DEF Settled
<1> QED
  BY <1>2, <1>3

LEMMA ClaimsKeptStep == ASSUME LoopTyped, ClaimsKept, [Greetings!Next]_greetings PROVE ClaimsKept'
<1> USE GreetingsAssumption
<1>t. /\ Greetings!TypeOK /\ Located
      /\ \A c \in Chats, d \in Greetings!Days : Settled(c, d) => Settled(c, d)'
  BY SettledStays DEF LoopTyped
<1>k. /\ \A c \in Chats, d \in Greetings!Days :
           <<c, d>> \in claimed => Settled(c, d) \/ Sending(c, d)
      /\ step \in {"celebrate", "send"} =>
           \A c \in Chats : /\ c \in todo \/ Sending(c, today) \/ Settled(c, today)
                            /\ today < day => <<c, day>> \in excused
      /\ step = "sleep" /\ day < until => \A c \in Chats : Settled(c, day)
      /\ \A c \in Chats, d \in Greetings!Days : d < day => Settled(c, d)
  BY DEF ClaimsKept
<1>1. CASE Greetings!Start \/ Greetings!Celebrate
  BY <1>t, <1>k, <1>1 DEF Greetings!Start, Greetings!AfterStart, Greetings!Celebrate, ClaimsKept,
                          Sending, Greetings!TypeOK, Greetings!Days
<1>2. ASSUME NEW e \in Chats, Greetings!Claim(e) \/ Greetings!ClaimUnanswered(e) PROVE ClaimsKept'
  <2>1. /\ step = "celebrate" /\ UNCHANGED <<day, today, excused, until>>
        /\ step' \in {"celebrate", "send"} /\ todo' = todo \ {e}
        /\ claimed' \subseteq claimed \cup {<<e, today>>}
        /\ <<e, today>> \in claimed \/ Sending(e, today)'
    BY <1>2 DEF Greetings!Claim, Greetings!ClaimUnanswered, Sending
  <2>2. today \in Greetings!Days
    BY <1>t, <2>1 DEF Located
  <2>3. \A c \in Chats, d \in Greetings!Days : ~Sending(c, d)
    BY <2>1 DEF Sending
  <2>4. Settled(e, today)' \/ Sending(e, today)'
    BY <1>t, <1>k, <2>1, <2>2, <2>3
  <2>5. \A c \in Chats, d \in Greetings!Days :
          <<c, d>> \in claimed' => Settled(c, d)' \/ Sending(c, d)'
    BY <1>t, <1>k, <2>1, <2>3, <2>4
  <2>6. \A c \in Chats : c \in todo' \/ Sending(c, today)' \/ Settled(c, today)'
    BY <1>t, <1>k, <2>1, <2>2, <2>3, <2>4
  <2> QED
    BY <1>t, <1>k, <2>1, <2>5, <2>6 DEF ClaimsKept
<1>3. CASE Greetings!Send
  <2>1. /\ step = "send" /\ step' = "celebrate"
        /\ UNCHANGED <<day, today, todo, until, claimed, excused>>
        /\ greeted' = [greeted EXCEPT ![<<chat, today>>] = @ + 1]
    BY <1>3 DEF Greetings!Send
  <2>2. \A c \in Chats, d \in Greetings!Days : Sending(c, d) => Settled(c, d)'
    <3> SUFFICES ASSUME NEW c \in Chats, NEW d \in Greetings!Days, Sending(c, d)
                 PROVE  Settled(c, d)'
      OBVIOUS
    <3>1. greeted'[<<c, d>>] = greeted[<<c, d>>] + 1 /\ greeted[<<c, d>>] \in Nat
      BY <1>t, <2>1 DEF Sending, Greetings!TypeOK
    <3> QED
      BY <3>1 DEF Settled
  <2> QED
    BY <1>t, <1>k, <2>1, <2>2 DEF ClaimsKept, Located
<1>4. CASE Greetings!Celebrated
  <2>a. /\ step = "celebrate" /\ todo = {} /\ UNCHANGED <<day, today>>
        /\ today \in Greetings!Days /\ today <= day /\ day \in Greetings!Days
    BY <1>t, <1>4 DEF Greetings!Celebrated, Located, Greetings!TypeOK
  <2>b. \A c \in Chats : Settled(c, today)
    BY <1>k, <2>a DEF Sending
  <2>c. \A c \in Chats : Settled(c, day)
    <3>1. CASE today = day
      BY <2>b, <3>1
    <3>2. CASE today < day
      BY <1>k, <2>a, <3>2 DEF Settled
    <3> QED
      BY <2>a, <3>1, <3>2 DEF Greetings!Days
  <2>d. \A c \in Chats, d \in Greetings!Days : d = day => Settled(c, d)'
    BY <1>t, <2>a, <2>c
  <2>1. \A c \in Chats : Settled(c, day)'
    BY <2>a, <2>d
  <2> QED
    BY <1>t, <1>k, <1>4, <2>1 DEF Greetings!Celebrated, Greetings!Sleep, ClaimsKept, Sending,
                                  Located
<1>5. CASE Greetings!Fails
  <2>1. /\ step \in {"celebrate", "send"} /\ step' = "sleep" /\ UNCHANGED <<day, today, claimed>>
        /\ excused' = excused \cup ((todo \cup {chat}) \cap Chats) \X {today}
    BY <1>5 DEF Greetings!Fails, Greetings!Sleep
  <2>2. today \in Greetings!Days /\ today <= day /\ day \in Greetings!Days
    BY <1>t, <2>1 DEF Located, Greetings!TypeOK
  <2>3. \A c \in Chats, d \in Greetings!Days : Sending(c, d) => Settled(c, d)'
    BY <2>1 DEF Sending, Settled
  <2>4. \A c \in Chats : Settled(c, today)'
    BY <1>t, <1>k, <2>1, <2>2, <2>3 DEF Settled
  <2>5. today < day => \A c \in Chats : Settled(c, day)'
    BY <1>k, <2>1 DEF Settled
  <2>6. \A c \in Chats : Settled(c, day)'
    <3>1. CASE today = day
      <4>1. today' = day'
        BY <2>1, <3>1
      <4> QED
        BY <2>4, <4>1 DEF Settled
    <3> QED
      BY <2>2, <2>5, <3>1 DEF Greetings!Days
  <2> QED
    BY <1>t, <1>k, <2>1, <2>3, <2>6 DEF ClaimsKept
<1>6. CASE Greetings!Stop
  <2>1. \A c \in Chats, d \in Greetings!Days : Sending(c, d) => Settled(c, d)'
    BY <1>6 DEF Greetings!Stop, Sending, Settled
  <2> QED
    BY <1>t, <1>k, <1>6, <2>1 DEF Greetings!Stop, ClaimsKept
<1>7. CASE Greetings!Midnight
  <2>1. /\ UNCHANGED <<step, today, todo, chat, until, claimed>> /\ day' = day + 1
        /\ step # "start" /\ ~(step = "sleep" /\ day >= until)
        /\ step = "down" => Chats \X {day} \subseteq excused'
        /\ step \in {"celebrate", "send"} => Chats \X {day, day + 1} \subseteq excused'
    BY <1>7 DEF Greetings!Midnight, Greetings!loop
  <2>2. day \in Greetings!Days /\ until \in Nat
        /\ step \in {"down", "start", "celebrate", "send", "sleep"}
    BY <1>t DEF Greetings!TypeOK, Greetings!Days
  <2>3. \A c \in Chats, d \in Greetings!Days : d = day => Settled(c, d)'
    BY <1>t, <1>k, <2>1, <2>2 DEF Settled, Greetings!Days
  <2>4. \A c \in Chats, d \in Greetings!Days : d < day' => Settled(c, d)'
    BY <1>t, <1>k, <2>1, <2>2, <2>3 DEF Greetings!Days
  <2>5. \A c \in Chats, d \in Greetings!Days : Sending(c, d)' <=> Sending(c, d)
    BY <2>1 DEF Sending
  <2>6. step' = "sleep" => ~(day' < until')
    BY <1>t, <2>1, <2>2 DEF Located, Greetings!Days
  <2>7. step' \in {"celebrate", "send"} =>
          \A c \in Chats : /\ c \in todo' \/ Sending(c, today)' \/ Settled(c, today)'
                           /\ <<c, day'>> \in excused'
    BY <1>t, <1>k, <2>1, <2>5 DEF Located
  <2> QED
    BY <1>t, <1>k, <2>1, <2>4, <2>5, <2>6, <2>7 DEF ClaimsKept
<1>8. CASE UNCHANGED greetings
  BY <1>t, <1>k, <1>8 DEF greetings, ClaimsKept, Sending, Settled
<1> QED
  BY <1>1, <1>2, <1>3, <1>4, <1>5, <1>6, <1>7, <1>8 DEF Greetings!Next

\* Over any restarts and failures a chat is greeted twice for a day only when Redis
\* did not answer a claim, and never greeted for a past day only with an excuse
\* (BirthdayScheduler.celebrate, _claim).
THEOREM GreetingsSentOnce == Spec => []GreetedOnce
<1>1. LoopTyped /\ Once /\ ClaimsKept => GreetedOnce
  <2> SUFFICES ASSUME LoopTyped, Once, ClaimsKept, NEW c \in Chats, NEW d \in Greetings!Days
               PROVE  /\ greeted[<<c, d>>] > 1 => d \in redisDown
                      /\ d < day /\ greeted[<<c, d>>] = 0 => <<c, d>> \in excused
    BY DEF GreetedOnce, Greetings!GreetedOnce
  <2>1. greeted[<<c, d>>] \in Nat
    BY DEF LoopTyped, Greetings!TypeOK
  <2>2. d \notin redisDown => greeted[<<c, d>>] <= 1
    BY DEF Once
  <2>3. d < day => greeted[<<c, d>>] > 0 \/ <<c, d>> \in excused
    BY DEF ClaimsKept, Settled
  <2> QED
    BY <2>1, <2>2, <2>3
<1> QED
  BY <1>1, LoopTypedInit, LoopTypedStep, OnceInit, OnceStep, ClaimsKeptInit, ClaimsKeptStep,
     GreetingsFollowed, PTL DEF Spec

-----------------------------------------------------------------------------
(*                          The platform supervisor                        *)
Kept(p) == \E i \in DOMAIN shutdowns : shutdowns[i] = p

(* What is open is left half-open, is being connected or has its shutdown  *)
(* kept, once; a stop has run every shutdown or one of them raised.        *)
Tallied ==
    /\ \A i, j \in DOMAIN shutdowns : shutdowns[i] = shutdowns[j] => i = j
    /\ \A p \in Platforms :
         /\ Kept(p) => task[p] = "done"
         /\ open[p] = halfOpen[p] + IF task[p] = "opened" \/ Kept(p) THEN 1 ELSE 0
         /\ p \in Tidy => halfOpen[p] = 0
    /\ app \in {"shutting", "stopped"} => \A p \in Platforms : task[p] = "done"
    /\ app = "stopped" /\ ~raised => shutdowns = <<>>

SupervisorInv == Supervisor!TypeOK /\ Tallied

LEMMA SupervisorInvInit == ASSUME Supervisor!Init PROVE SupervisorInv
<1>1. raised \in BOOLEAN
  BY Zenon DEF Supervisor!Init
<1>2. DOMAIN shutdowns = {} /\ shutdowns \in Seq(Platforms)
  BY DEF Supervisor!Init
<1>3. Supervisor!TypeOK
  BY <1>1, <1>2, SupervisorAssumption DEF Supervisor!Init, Supervisor!TypeOK
<1>4. Tallied
  BY <1>2 DEF Supervisor!Init, Tallied, Kept
<1> QED
  BY <1>3, <1>4 DEF SupervisorInv

LEMMA KeptSame == ASSUME UNCHANGED shutdowns PROVE \A p \in Platforms : Kept(p)' <=> Kept(p)
  BY DEF Kept

\* What an abandoned attempt does to the connections of its platform.
LEMMA Abandoned ==
    ASSUME SupervisorInv, NEW p \in Platforms, task[p] # "done", Supervisor!Abandon(p)
    PROVE  /\ open' \in [Platforms -> Nat] /\ halfOpen' \in [Platforms -> Nat]
           /\ \A q \in Platforms \ {p} : open'[q] = open[q] /\ halfOpen'[q] = halfOpen[q]
           /\ open'[p] = halfOpen'[p]
           /\ p \in Tidy => halfOpen'[p] = 0
<1>0. /\ open[p] = halfOpen[p] + IF task[p] = "opened" THEN 1 ELSE 0
      /\ p \in Tidy => halfOpen[p] = 0
      /\ open \in [Platforms -> Nat] /\ halfOpen \in [Platforms -> Nat]
  BY DEF SupervisorInv, Supervisor!TypeOK, Tallied
<1>1. CASE Supervisor!LeavesOpen(p)
  BY <1>0, <1>1 DEF Supervisor!Abandon, Supervisor!LeavesOpen
<1>2. CASE ~Supervisor!LeavesOpen(p) /\ task[p] = "opened"
  BY <1>0, <1>2 DEF Supervisor!Abandon, Supervisor!LeavesOpen
<1>3. CASE task[p] # "opened"
  BY <1>0, <1>3 DEF Supervisor!Abandon, Supervisor!LeavesOpen
<1> QED
  BY <1>1, <1>2, <1>3

LEMMA SupervisorInvStep == ASSUME SupervisorInv, [Supervisor!Next]_supervisor PROVE SupervisorInv'
<1> USE SupervisorAssumption
<1>t. Supervisor!TypeOK /\ Tallied
  BY DEF SupervisorInv
<1>1. ASSUME NEW p \in Platforms, Supervisor!Opens(p) PROVE SupervisorInv'
  <2>1. ~Kept(p) /\ ~Kept(p)' /\ \A q \in Platforms : Kept(q)' <=> Kept(q)
    BY <1>t, <1>1, KeptSame DEF Supervisor!Opens, Tallied
  <2>2. Supervisor!TypeOK'
    BY <1>t, <1>1 DEF Supervisor!Opens, Supervisor!TypeOK
  <2>3. Tallied'
    BY <1>t, <1>1, <2>1, <2>2 DEF Supervisor!Opens, Supervisor!Live, Supervisor!TypeOK, Tallied
  <2> QED
    BY <2>2, <2>3 DEF SupervisorInv
<1>2. ASSUME NEW p \in Platforms, Supervisor!Connected(p) PROVE SupervisorInv'
  <2>1. shutdowns' = Append(shutdowns, p) /\ UNCHANGED <<app, open, halfOpen, raised, retries>>
        /\ task[p] = "opened" /\ app = "running"
        /\ task' = [task EXCEPT ![p] = "done"] /\ status' = [status EXCEPT ![p] = "up"]
    BY <1>2 DEF Supervisor!Connected, Supervisor!Live
  <2>2. Supervisor!TypeOK'
    BY <1>t, <2>1 DEF Supervisor!TypeOK
  <2>3. ~Kept(p)
    BY <1>t, <2>1 DEF Tallied
  <2>4. /\ DOMAIN shutdowns' = DOMAIN shutdowns \cup {Len(shutdowns) + 1}
        /\ shutdowns'[Len(shutdowns) + 1] = p
        /\ \A i \in DOMAIN shutdowns : shutdowns'[i] = shutdowns[i] /\ i # Len(shutdowns) + 1
    BY <1>t, <2>1 DEF Supervisor!TypeOK
  <2>5. \A q \in Platforms : Kept(q)' <=> Kept(q) \/ q = p
    BY <2>4 DEF Kept
  <2>6. \A i, j \in DOMAIN shutdowns' : shutdowns'[i] = shutdowns'[j] => i = j
    BY <1>t, <2>3, <2>4 DEF Tallied, Kept
  <2> QED
    <3>1. /\ task \in [Platforms -> {"connecting", "opened", "backoff", "done"}]
          /\ app' = "running" /\ open' = open /\ halfOpen' = halfOpen
      BY <1>t, <2>1 DEF Supervisor!TypeOK
    <3>2. ASSUME NEW q \in Platforms
          PROVE  /\ Kept(q)' => task'[q] = "done"
                 /\ open'[q] = halfOpen'[q]
                      + IF task'[q] = "opened" \/ Kept(q)' THEN 1 ELSE 0
                 /\ q \in Tidy => halfOpen'[q] = 0
      <4>1. CASE q = p
        BY <1>t, <2>1, <2>5, <3>1, <4>1 DEF Tallied
      <4>2. CASE q # p
        <5>1. task'[q] = task[q] /\ (Kept(q)' <=> Kept(q))
          BY <2>1, <2>5, <3>1, <4>2
        <5> QED
          BY <1>t, <3>1, <5>1 DEF Tallied
      <4> QED
        BY <4>1, <4>2
    <3>3. app' \notin {"shutting", "stopped"}
      BY <3>1
    <3>4. Tallied'
      BY <2>6, <3>2, <3>3 DEF Tallied
    <3> QED
      BY <2>2, <3>4 DEF SupervisorInv
<1>3. ASSUME NEW p \in Platforms, task[p] # "done", Supervisor!Abandon(p),
             UNCHANGED <<shutdowns, app, raised>>,
             app \in {"running", "cancelling"},
             \E s \in {"backoff", "done"} : task' = [task EXCEPT ![p] = s]
      PROVE  Tallied' /\ open' \in [Platforms -> Nat] /\ halfOpen' \in [Platforms -> Nat]
  <2>1. ~Kept(p) /\ ~Kept(p)' /\ \A q \in Platforms : Kept(q)' <=> Kept(q)
    BY <1>t, <1>3 DEF Tallied, Kept
  <2>2. task' \in [Platforms -> {"connecting", "opened", "backoff", "done"}]
        /\ task'[p] # "opened" /\ \A q \in Platforms \ {p} : task'[q] = task[q]
    BY <1>t, <1>3 DEF Supervisor!TypeOK
  <2> QED
    BY <1>t, <1>3, <2>1, <2>2, Abandoned DEF SupervisorInv, Tallied
<1>4. ASSUME NEW p \in Platforms, Supervisor!Fails(p) PROVE SupervisorInv'
  <2>1. /\ retries' \in 0..MaxRetries /\ raised' = raised
        /\ task' \in [Platforms -> {"connecting", "opened", "backoff", "done"}]
        /\ status' \in [Platforms -> {"starting", "retrying", "up", "failed"}]
        /\ UNCHANGED <<shutdowns, app>>
    BY <1>t, <1>4 DEF Supervisor!Fails, Supervisor!TypeOK
  <2>2. Tallied' /\ open' \in [Platforms -> Nat] /\ halfOpen' \in [Platforms -> Nat]
    BY <1>3, <1>4 DEF Supervisor!Fails, Supervisor!Live
  <2> QED
    BY <1>t, <2>1, <2>2 DEF SupervisorInv, Supervisor!TypeOK
<1>5. ASSUME NEW p \in Platforms, Supervisor!Cancelled(p) PROVE SupervisorInv'
  BY <1>t, <1>3, <1>5 DEF Supervisor!Cancelled, SupervisorInv, Supervisor!TypeOK
<1>6. ASSUME NEW p \in Platforms, Supervisor!Refused(p) \/ Supervisor!Retry(p) PROVE SupervisorInv'
  <2>1. ~Kept(p) /\ ~Kept(p)' /\ \A q \in Platforms : Kept(q)' <=> Kept(q)
    BY <1>t, <1>6, KeptSame DEF Supervisor!Refused, Supervisor!Retry, Tallied
  <2>2. Supervisor!TypeOK'
    BY <1>t, <1>6 DEF Supervisor!Refused, Supervisor!Retry, Supervisor!TypeOK
  <2>3. Tallied'
    BY <1>t, <1>6, <2>1, <2>2 DEF Supervisor!Refused, Supervisor!Retry, Supervisor!Live,
                                  Supervisor!TypeOK, Tallied
  <2> QED
    BY <2>2, <2>3 DEF SupervisorInv
<1>7. CASE Supervisor!Stop \/ Supervisor!Gather \/ Supervisor!ShutDownRaises \/ Supervisor!Stopped
  <2>1. /\ UNCHANGED <<status, task, shutdowns, open, halfOpen, retries>>
        /\ app' \in {"cancelling", "shutting", "stopped"}
        /\ app' \in {"shutting", "stopped"} => \A p \in Platforms : task[p] = "done"
        /\ app' = "stopped" => shutdowns = <<>> \/ raised'
    BY <1>t, <1>7 DEF Supervisor!Stop, Supervisor!Gather, Supervisor!Gathered,
                      Supervisor!ShutDownRaises, Supervisor!Stopped, Tallied
  <2>2. raised' \in BOOLEAN
    BY <1>t, <1>7, Zenon DEF Supervisor!Stop, Supervisor!Gather, Supervisor!ShutDownRaises,
                             Supervisor!Stopped, Supervisor!TypeOK
  <2>3. Supervisor!TypeOK'
    BY <1>t, <2>1, <2>2 DEF Supervisor!TypeOK
  <2>4. Tallied'
    BY <1>t, <2>1, KeptSame DEF Tallied
  <2> QED
    BY <2>3, <2>4 DEF SupervisorInv
<1>8. CASE Supervisor!ShutDown
  <2> DEFINE p == Head(shutdowns)
  <2>1. /\ shutdowns \in Seq(Platforms) /\ shutdowns # <<>>
        /\ shutdowns' = Tail(shutdowns) /\ open' = [open EXCEPT ![p] = @ - 1]
        /\ UNCHANGED <<status, task, app, halfOpen, raised, retries>> /\ app = "shutting"
    BY <1>t, <1>8 DEF Supervisor!ShutDown, Supervisor!TypeOK
  <2>2. /\ p \in Platforms /\ shutdowns' \in Seq(Platforms) /\ Len(shutdowns') = Len(shutdowns) - 1
        /\ p = shutdowns[1] /\ 1 \in DOMAIN shutdowns
        /\ \A i \in 1..Len(shutdowns') : /\ shutdowns'[i] = shutdowns[i + 1]
                                         /\ i + 1 \in DOMAIN shutdowns
    BY <2>1, HeadTailProperties
  <2>3. \A i \in DOMAIN shutdowns :
          i # 1 => i - 1 \in DOMAIN shutdowns' /\ shutdowns'[i - 1] = shutdowns[i]
    BY <2>1, <2>2
  <2> HIDE DEF p
  <2>a. DOMAIN shutdowns = 1..Len(shutdowns) /\ DOMAIN shutdowns' = 1..Len(shutdowns')
    BY <2>1, <2>2
  <2>b. Kept(p)
    BY <2>2 DEF Kept
  <2>c. ASSUME NEW q \in Platforms, Kept(q)' PROVE Kept(q) /\ q # p
    <3>1. PICK i \in DOMAIN shutdowns' : shutdowns'[i] = q
      BY <2>c DEF Kept
    <3>2. shutdowns[i + 1] = q /\ i + 1 \in DOMAIN shutdowns /\ i + 1 # 1
      BY <2>2, <2>a, <3>1
    <3> QED
      BY <1>t, <2>2, <3>2 DEF Kept, Tallied
  <2>d. ASSUME NEW q \in Platforms, Kept(q), q # p PROVE Kept(q)'
    <3>1. PICK i \in DOMAIN shutdowns : shutdowns[i] = q
      BY <2>d DEF Kept
    <3> QED
      BY <2>2, <2>3, <2>d, <3>1 DEF Kept
  <2>4. Kept(p) /\ \A q \in Platforms : Kept(q)' <=> Kept(q) /\ q # p
    BY <2>b, <2>c, <2>d
  <2>5. \A i, j \in DOMAIN shutdowns' : shutdowns'[i] = shutdowns'[j] => i = j
    BY <1>t, <2>1, <2>2 DEF Tallied
  <2>6. open[p] = halfOpen[p] + 1
    BY <1>t, <2>2, <2>4 DEF Tallied
  <2>7. Supervisor!TypeOK'
    BY <1>t, <2>1, <2>2, <2>6 DEF Supervisor!TypeOK
  <2> QED
    BY <1>t, <2>1, <2>2, <2>4, <2>5, <2>6, <2>7 DEF SupervisorInv, Supervisor!TypeOK, Tallied
<1>9. CASE UNCHANGED supervisor
  <2>1. Supervisor!TypeOK'
    BY <1>t, <1>9 DEF supervisor, Supervisor!TypeOK
  <2>2. Tallied'
    BY <1>t, <1>9, KeptSame DEF supervisor, Tallied
  <2> QED
    BY <2>1, <2>2 DEF SupervisorInv
<1> QED
  BY <1>1, <1>2, <1>4, <1>5, <1>6, <1>7, <1>8, <1>9 DEF Supervisor!Next

\* Every connection counter stays a natural number: nothing is closed twice.
THEOREM SupervisorTyped == Spec => []Supervisor!TypeOK
<1>1. SupervisorInv => Supervisor!TypeOK
  BY DEF SupervisorInv
<1> QED
  BY <1>1, SupervisorInvInit, SupervisorInvStep, SupervisorFollowed, PTL DEF Spec

\* Whenever the core stops, and whatever was being connected, a stop in which no
\* shutdown raises closes everything but what failed attempts of a platform that
\* does not clean up left open (PlatformSupervisor.stop).
THEOREM SupervisorStopsClean == Spec => []StopClosesAll
<1>1. SupervisorInv => StopClosesAll
  <2> SUFFICES ASSUME SupervisorInv PROVE StopClosesAll
    OBVIOUS
  <2>1. \A p \in Tidy : halfOpen[p] = 0
    BY SupervisorAssumption DEF SupervisorInv, Tallied
  <2>2. ASSUME app = "stopped", ~raised PROVE open = halfOpen
    <3>0. shutdowns = <<>> /\ \A p \in Platforms : task[p] = "done"
      BY <2>2 DEF SupervisorInv, Tallied
    <3>1. \A p \in Platforms : ~Kept(p)
      <4>1. DOMAIN shutdowns = {}
        BY <3>0
      <4> QED
        BY <4>1 DEF Kept
    <3>2. ASSUME NEW p \in Platforms PROVE open[p] = halfOpen[p]
      <4>1. open[p] = halfOpen[p] + IF task[p] = "opened" \/ Kept(p) THEN 1 ELSE 0
        BY DEF SupervisorInv, Tallied
      <4> QED
        BY <3>0, <3>1, <4>1 DEF SupervisorInv, Supervisor!TypeOK
    <3> QED
      BY <3>2 DEF SupervisorInv, Supervisor!TypeOK
  <2> QED
    BY <2>1, <2>2 DEF StopClosesAll, Supervisor!StopClosesAll
<1> QED
  BY <1>1, SupervisorInvInit, SupervisorInvStep, SupervisorFollowed, PTL DEF Spec
=============================================================================
