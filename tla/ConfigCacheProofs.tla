------------------------- MODULE ConfigCacheProofs -------------------------
(* Proofs about ConfigCache, for every set of commands, loads and editors. *)
EXTENDS ConfigCache, SequenceTheorems, TLAPS

\* A fault is counted and nothing else is.
LEMMA FaultType ==
    ASSUME faults \in [FaultKinds -> Nat], NEW k \in FaultKinds, Fault(k)
    PROVE  faults' \in [FaultKinds -> Nat]
  BY DEF Fault

\* The configuration of the rows, and the rows a write leaves behind.
LEMMA ConfigType ==
    ASSUME NEW rows \in Configs \cup {NoRow}
    PROVE  Config(rows) \in Configs
  BY DEF Config, Configs, Default, Values

LEMMA WrittenType ==
    ASSUME NEW rows \in Configs \cup {NoRow}, NEW s \in Settings, NEW v \in Values
    PROVE  Written(rows, s, v) \in Configs \cup {NoRow}
  BY ConfigType DEF Written, Configs

\* A write changes one setting of the configuration at most.
LEMMA WrittenOne ==
    ASSUME NEW rows \in Configs \cup {NoRow}, NEW s \in Settings, NEW v \in Values
    PROVE  \A u \in Settings \ {s} :
               Config(Written(rows, s, v))[u] = Config(rows)[u]
<1>1. CASE rows = NoRow /\ v = "unset"
  BY <1>1 DEF Written
<1>2. CASE ~(rows = NoRow /\ v = "unset")
  <2>1. Written(rows, s, v) = [Config(rows) EXCEPT ![s] = v]
    BY <1>2 DEF Written
  <2>2. Written(rows, s, v) \in Configs
    BY <2>1, ConfigType DEF Configs
  <2>3. Config(Written(rows, s, v)) = [Config(rows) EXCEPT ![s] = v]
    BY <2>1, <2>2, CacheAssumption DEF Config
  <2> QED
    BY <2>3, ConfigType DEF Configs
<1> QED
  BY <1>1, <1>2

\* The next setting of a call, and what is left of the call after it.
LEMMA TodoType ==
    ASSUME TypeOK, NEW w \in Editors, edit[w].at # "idle"
    PROVE  /\ edit[w].to \in Values
           /\ Head(edit[w].todo) \in Settings
           /\ Tail(edit[w].todo) \in Seq(Settings)
           /\ Len(edit[w].todo) # 1 => Tail(edit[w].todo) # <<>>
<1>1. edit[w].todo \in Seq(Settings) /\ edit[w].todo # <<>> /\ edit[w].to \in Values
  BY DEF TypeOK, Edits
<1>2. /\ Head(edit[w].todo) \in Settings
      /\ Tail(edit[w].todo) \in Seq(Settings)
      /\ Len(Tail(edit[w].todo)) = Len(edit[w].todo) - 1
  BY <1>1, HeadTailProperties
<1>3. Len(edit[w].todo) \in Nat
  BY <1>1
<1>4. Tail(edit[w].todo) = <<>> => Len(Tail(edit[w].todo)) = 0
  BY EmptySeq
<1> QED
  BY <1>1, <1>2, <1>3, <1>4

LEMMA CallType ==
    ASSUME NEW call \in Calls
    PROVE  /\ call.settings \in Seq(Settings) /\ call.settings # <<>>
           /\ Head(call.settings) \in Settings
           /\ call.to \in Values
<1>1. call.settings \in Seq(Settings) /\ call.settings # <<>> /\ call.to \in Values
  BY CacheAssumption
<1> QED
  BY <1>1, HeadTailProperties

\* A commit keeps the types.
LEMMA CommitType ==
    ASSUME TypeOK, NEW rows \in Configs \cup {NoRow}, CommitRows(rows)
    PROVE  /\ db' \in Configs \cup {NoRow}
           /\ since' \in [Loaders -> SUBSET Configs]
  BY ConfigType DEF TypeOK, CommitRows

LEMMA TypeInit == Init => TypeOK
  BY DEF Init, TypeOK, IdleLoad, IdleEdit, Loads, Edits, Configs, Default, Values

LEMMA TypeStep == TypeOK /\ [Next]_vars => TypeOK'
<1> SUFFICES ASSUME TypeOK, [Next]_vars
             PROVE  TypeOK'
  OBVIOUS
<1>a. IdleLoad \in Loads /\ IdleEdit \in Edits /\ Default \in Configs
  BY DEF IdleLoad, IdleEdit, Loads, Edits, Configs, Default, Values
<1>b. Config(db) \in Configs
  BY ConfigType DEF TypeOK
<1>1. ASSUME NEW r \in Loaders, Miss(r)
      PROVE  TypeOK'
  BY <1>1 DEF Miss, TypeOK, Loads
<1>2. ASSUME NEW r \in Loaders, QueryChat(r)
      PROVE  TypeOK'
  <2>1. load' \in [Loaders -> Loads]
    BY <1>2, <1>b DEF QueryChat, TypeOK, Loads
  <2> QED
    BY <1>2, <1>b, <2>1 DEF QueryChat, TypeOK
<1>3. ASSUME NEW r \in Loaders, QueryOverrides(r)
      PROVE  TypeOK'
  <2>1. [Config(db) EXCEPT !["policy"] = load[r].config["policy"]] \in Configs
    BY <1>b DEF TypeOK, Loads, Configs, Settings
  <2> QED
    BY <1>3, <2>1 DEF QueryOverrides, TypeOK, Loads
<1>4. ASSUME NEW r \in Loaders, Fill(r)
      PROVE  TypeOK'
  <2>1. load[r].config \in Configs
    BY DEF TypeOK, Loads
  <2> QED
    BY <1>4, <1>a, <2>1 DEF Fill, EndLoad, TypeOK
<1>5. ASSUME NEW r \in Loaders, LoadFails(r)
      PROVE  TypeOK'
  <2>1. faults' \in [FaultKinds -> Nat]
    BY <1>5, FaultType DEF LoadFails, TypeOK, FaultKinds
  <2> QED
    BY <1>5, <1>a, <2>1 DEF LoadFails, EndLoad, TypeOK
<1>6. ASSUME NEW w \in Editors, NEW call \in Calls, Begin(w, call)
      PROVE  TypeOK'
  BY <1>6, CallType DEF Begin, TypeOK, Edits
<1>7. ASSUME NEW w \in Editors, Commit(w)
      PROVE  TypeOK'
  <2> DEFINE rows == Written(db, Head(edit[w].todo), edit[w].to)
  <2>1. rows \in Configs \cup {NoRow}
    BY <1>7, TodoType, WrittenType DEF Commit, TypeOK
  <2>2. CommitRows(rows)
    BY <1>7 DEF Commit
  <2> HIDE DEF rows
  <2>3. db' \in Configs \cup {NoRow} /\ since' \in [Loaders -> SUBSET Configs]
    BY <2>1, <2>2, CommitType
  <2> QED
    BY <1>7, <2>3 DEF Commit, TypeOK, Edits
<1>8. ASSUME NEW w \in Editors, Invalidate(w)
      PROVE  TypeOK'
  <2>1. /\ Tail(edit[w].todo) \in Seq(Settings)
        /\ Len(edit[w].todo) # 1 => Tail(edit[w].todo) # <<>>
        /\ edit[w].to \in Values
    BY <1>8, TodoType DEF Invalidate
  <2>2. edit' \in [Editors -> Edits]
    BY <1>8, <1>a, <2>1 DEF Invalidate, TypeOK, Edits
  <2>3. \A v \in Editors : edit'[v].at # "idle" => edit'[v].todo # <<>>
    BY <1>8, <2>1 DEF Invalidate, TypeOK, Edits, IdleEdit
  <2> QED
    BY <1>8, <2>2, <2>3 DEF Invalidate, TypeOK
<1>9. ASSUME NEW w \in Editors, WriteFails(w)
      PROVE  TypeOK'
  <2>1. \A v \in Editors : edit'[v].at # "idle" => edit'[v].todo # <<>>
    BY <1>9 DEF WriteFails, TypeOK, IdleEdit
  <2>2. faults' \in [FaultKinds -> Nat]
    BY <1>9, FaultType DEF WriteFails, TypeOK, FaultKinds
  <2> QED
    BY <1>9, <1>a, <2>1, <2>2 DEF WriteFails, TypeOK
<1>10. ASSUME NEW w \in Editors, CommitUnseen(w)
       PROVE  TypeOK'
  <2> DEFINE rows == Written(db, Head(edit[w].todo), edit[w].to)
  <2>1. rows \in Configs \cup {NoRow}
    BY <1>10, TodoType, WrittenType DEF CommitUnseen, TypeOK
  <2>2. CommitRows(rows)
    BY <1>10 DEF CommitUnseen
  <2> HIDE DEF rows
  <2>3. db' \in Configs \cup {NoRow} /\ since' \in [Loaders -> SUBSET Configs]
    BY <2>1, <2>2, CommitType
  <2>4. \A v \in Editors : edit'[v].at # "idle" => edit'[v].todo # <<>>
    BY <1>10 DEF CommitUnseen, TypeOK, IdleEdit
  <2>5. faults' \in [FaultKinds -> Nat]
    BY <1>10, FaultType DEF CommitUnseen, TypeOK, FaultKinds
  <2> QED
    BY <1>10, <1>a, <2>3, <2>4, <2>5 DEF CommitUnseen, TypeOK
<1>11. ASSUME Expire
       PROVE  TypeOK'
  BY <1>11 DEF Expire, TypeOK
<1>12. ASSUME NEW call \in Calls, DirectEdit(Head(call.settings), call.to)
       PROVE  TypeOK'
  <2> DEFINE rows == Written(db, Head(call.settings), call.to)
  <2>1. rows \in Configs \cup {NoRow}
    BY CallType, WrittenType DEF TypeOK
  <2>2. CommitRows(rows)
    BY <1>12 DEF DirectEdit
  <2> HIDE DEF rows
  <2>3. db' \in Configs \cup {NoRow} /\ since' \in [Loaders -> SUBSET Configs]
    BY <2>1, <2>2, CommitType
  <2>4. faults' \in [FaultKinds -> Nat]
    BY <1>12, FaultType DEF DirectEdit, TypeOK, FaultKinds
  <2> QED
    BY <1>12, <2>3, <2>4 DEF DirectEdit, TypeOK
<1>13. ASSUME Restart
       PROVE  TypeOK'
  <2>1. \A v \in Editors : edit'[v].at # "idle" => edit'[v].todo # <<>>
    BY <1>13 DEF Restart, IdleEdit
  <2>2. faults' \in [FaultKinds -> Nat]
    BY <1>13, FaultType DEF Restart, TypeOK, FaultKinds
  <2> QED
    BY <1>13, <1>a, <2>1, <2>2 DEF Restart, TypeOK
<1>14. CASE UNCHANGED vars
  BY <1>14 DEF vars, TypeOK
<1> QED
  BY <1>1, <1>2, <1>3, <1>4, <1>5, <1>6, <1>7, <1>8, <1>9, <1>10, <1>11, <1>12,
     <1>13, <1>14 DEF Next, LoadStep, EditStep

\* Every variable keeps its type, and a ,config call under way has a setting
\* left to write.
THEOREM TypeCorrect == Spec => []TypeOK
  BY TypeInit, TypeStep, PTL DEF Spec

\* What a load knows: it has seen the present configuration among those since
\* its query, and, as long as these are two at most, they differ in one
\* setting, and what it read is one of them.
OneApart(c, d) == \E s \in Settings : \A u \in Settings \ {s} : c[u] = d[u]

LoadSound(r) ==
    /\ Config(db) \in since[r]
    /\ \A c, d \in since[r] : since[r] = {c, d} =>
          load[r].config \in since[r] /\ OneApart(c, d)
    /\ load[r].at = "overrides" => load[r].config \in since[r]

LoadInd == \A r \in Querying : LoadSound(r)

\* A step that leaves the rows and a load alone keeps the load sound.
LEMMA LoadKept ==
    ASSUME NEW r \in Querying, LoadSound(r), UNCHANGED <<db, load[r], since[r]>>
    PROVE  LoadSound(r)'
  BY DEF LoadSound, Config, Default, Settings

\* A commit changes one setting at most, so every load stays sound.
LEMMA CommitKept ==
    ASSUME TypeOK, LoadInd, NEW s \in Settings, NEW v \in Values,
           CommitRows(Written(db, s, v)), UNCHANGED load
    PROVE  LoadInd'
<1> DEFINE new == Config(db)'
<1>1. /\ Config(db) \in Configs
      /\ \A u \in Settings \ {s} : new[u] = Config(db)[u]
  <2>1. db' = Written(db, s, v)
    BY DEF CommitRows
  <2>2. new = Config(Written(db, s, v))
    BY <2>1 DEF Config, Default, Settings
  <2> QED
    BY <2>2, WrittenOne, ConfigType DEF TypeOK
<1> SUFFICES ASSUME NEW r \in Querying'
             PROVE  LoadSound(r)'
  BY DEF LoadInd
<1>2. r \in Querying /\ LoadSound(r)
  BY DEF Querying, LoadInd
<1>3. since'[r] = since[r] \cup {new}
  BY <1>2 DEF CommitRows, Querying, TypeOK, Config, Default, Settings
<1> HIDE DEF new
<1>4. ASSUME NEW c \in since'[r], NEW d \in since'[r], since'[r] = {c, d}
      PROVE  load[r].config \in since'[r] /\ OneApart(c, d)
  <2>1. CASE new \in since[r]
    BY <1>2, <1>3, <1>4, <2>1 DEF LoadSound
  <2>2. CASE new \notin since[r]
    <3>1. since[r] = {Config(db)}
      BY <1>2, <1>3, <1>4, <2>2 DEF LoadSound
    <3>2. load[r].config = Config(db)
      BY <1>2, <3>1 DEF LoadSound
    <3>3. OneApart(new, Config(db)) /\ OneApart(Config(db), new)
      BY <1>1 DEF OneApart
    <3>4. OneApart(new, new) /\ OneApart(Config(db), Config(db))
      BY DEF OneApart, Settings
    <3> QED
      BY <1>3, <1>4, <3>1, <3>2, <3>3, <3>4
  <2> QED
    BY <2>1, <2>2
<1>5. new \in since'[r]
  BY <1>3
<1>6. load[r].at = "overrides" => load[r].config \in since'[r]
  BY <1>2, <1>3 DEF LoadSound
<1> QED
  BY <1>4, <1>5, <1>6 DEF LoadSound, OneApart, new, Config, Default, Settings

LEMMA LoadInit == Init => LoadInd
  BY DEF Init, LoadInd, Querying, IdleLoad

LEMMA LoadIndStep == TypeOK /\ LoadInd /\ [Next]_vars => LoadInd'
<1> SUFFICES ASSUME TypeOK, LoadInd, [Next]_vars
             PROVE  LoadInd'
  OBVIOUS
<1>a. ASSUME NEW r \in Loaders, load'[r].at \notin {"overrides", "fill"},
             \A q \in Loaders \ {r} : load'[q] = load[q] /\ since'[q] = since[q],
             UNCHANGED db
      PROVE  LoadInd'
  <2> SUFFICES ASSUME NEW q \in Querying'
               PROVE  LoadSound(q)'
    BY DEF LoadInd
  <2>1. q \in Querying /\ UNCHANGED <<db, load[q], since[q]>>
    BY <1>a DEF Querying
  <2> QED
    BY <2>1, LoadKept DEF LoadInd
<1>b. ASSUME UNCHANGED <<db, load, since>>
      PROVE  LoadInd'
  <2> SUFFICES ASSUME NEW q \in Querying'
               PROVE  LoadSound(q)'
    BY DEF LoadInd
  <2>1. q \in Querying /\ UNCHANGED <<db, load[q], since[q]>>
    BY <1>b DEF Querying
  <2> QED
    BY <2>1, LoadKept DEF LoadInd
<1>1. ASSUME NEW r \in Loaders, Miss(r)
      PROVE  LoadInd'
  BY <1>1, <1>a DEF Miss, TypeOK, Loads
<1>2. ASSUME NEW r \in Loaders, QueryChat(r)
      PROVE  LoadInd'
  <2> SUFFICES ASSUME NEW q \in Querying'
               PROVE  LoadSound(q)'
    BY DEF LoadInd
  <2>1. CASE q = r
    <3>1. /\ load'[r].config = Config(db)
          /\ since'[r] = {Config(db)}
          /\ Config(db)' = Config(db)
      BY <1>2 DEF QueryChat, TypeOK, Config, Default, Settings
    <3>2. OneApart(Config(db), Config(db))
      BY DEF OneApart, Settings
    <3> QED
      BY <2>1, <3>1, <3>2 DEF LoadSound, OneApart
  <2>2. CASE q # r
    <3>1. q \in Querying /\ UNCHANGED <<db, load[q], since[q]>>
      BY <1>2, <2>2 DEF QueryChat, Querying, TypeOK
    <3> QED
      BY <3>1, LoadKept DEF LoadInd
  <2> QED
    BY <2>1, <2>2
<1>3. ASSUME NEW r \in Loaders, QueryOverrides(r)
      PROVE  LoadInd'
  <2> SUFFICES ASSUME NEW q \in Querying'
               PROVE  LoadSound(q)'
    BY DEF LoadInd
  <2>1. CASE q = r
    <3> DEFINE old == load[r].config
               mixed == [Config(db) EXCEPT !["policy"] = old["policy"]]
    <3>1. /\ load'[r] = [at |-> "fill", config |-> mixed]
          /\ since'[r] = since[r]
          /\ Config(db)' = Config(db)
      BY <1>3 DEF QueryOverrides, TypeOK, Config, Default, Settings
    <3>2. LoadSound(r) /\ old \in since[r]
      BY <1>3 DEF QueryOverrides, Querying, LoadInd, LoadSound
    <3>3. old \in Configs /\ Config(db) \in Configs
      BY ConfigType DEF TypeOK, Loads
    <3>4. ASSUME NEW s \in Settings, \A u \in Settings \ {s} : old[u] = Config(db)[u]
          PROVE  mixed \in {old, Config(db)}
      <4>1. CASE s = "policy"
        BY <3>3, <3>4, <4>1 DEF Configs
      <4>2. CASE s # "policy"
        BY <3>3, <3>4, <4>2 DEF Configs, Settings
      <4> QED
        BY <4>1, <4>2
    <3>5. ASSUME NEW c \in since[r], NEW d \in since[r], since[r] = {c, d}
          PROVE  mixed \in since[r] /\ OneApart(c, d)
      <4>1. OneApart(c, d) /\ OneApart(d, c)
        <5>1. OneApart(c, d)
          BY <3>2, <3>5 DEF LoadSound
        <5> QED
          BY <5>1 DEF OneApart
      <4>2. OneApart(old, Config(db))
        <5>1. OneApart(old, old)
          BY DEF OneApart, Settings
        <5> QED
          BY <3>2, <3>5, <4>1, <5>1 DEF LoadSound
      <4>3. mixed \in {old, Config(db)}
        BY <3>4, <4>2 DEF OneApart
      <4> QED
        BY <3>2, <4>1, <4>3 DEF LoadSound
    <3> HIDE DEF mixed, old
    <3>6. load'[r].config = mixed /\ load'[r].at = "fill"
      BY <3>1
    <3> QED
      BY <2>1, <3>1, <3>2, <3>5, <3>6 DEF LoadSound, OneApart
  <2>2. CASE q # r
    <3>1. q \in Querying /\ UNCHANGED <<db, load[q], since[q]>>
      BY <1>3, <2>2 DEF QueryOverrides, Querying, TypeOK
    <3> QED
      BY <3>1, LoadKept DEF LoadInd
  <2> QED
    BY <2>1, <2>2
<1>4. ASSUME NEW r \in Loaders, Fill(r) \/ LoadFails(r)
      PROVE  LoadInd'
  BY <1>4, <1>a DEF Fill, LoadFails, EndLoad, IdleLoad, TypeOK
<1>5. ASSUME NEW w \in Editors, Commit(w) \/ CommitUnseen(w)
      PROVE  LoadInd'
  <2>1. /\ Head(edit[w].todo) \in Settings /\ edit[w].to \in Values
        /\ CommitRows(Written(db, Head(edit[w].todo), edit[w].to))
        /\ UNCHANGED load
    BY <1>5, TodoType DEF Commit, CommitUnseen
  <2> QED
    BY <2>1, CommitKept
<1>6. ASSUME NEW call \in Calls, DirectEdit(Head(call.settings), call.to)
      PROVE  LoadInd'
  BY <1>6, CallType, CommitKept DEF DirectEdit
<1>7. ASSUME Restart
      PROVE  LoadInd'
  BY <1>7 DEF Restart, LoadInd, Querying, IdleLoad
<1>8. ASSUME NEW w \in Editors,
             Invalidate(w) \/ WriteFails(w) \/ \E call \in Calls : Begin(w, call)
      PROVE  LoadInd'
  BY <1>8, <1>b DEF Invalidate, WriteFails, Begin
<1>9. CASE Expire \/ UNCHANGED vars
  BY <1>9, <1>b DEF Expire, vars
<1> QED
  BY <1>1, <1>2, <1>3, <1>4, <1>5, <1>6, <1>7, <1>8, <1>9
     DEF Next, LoadStep, EditStep

\* A load returns a configuration the chat had while it was loading, unless
\* the chat went through three of them.
THEOREM TornTakesTwoWrites == Spec => []TornNeedsTwoWrites
<1>1. TypeOK /\ LoadInd => TornNeedsTwoWrites
  BY DEF LoadInd, LoadSound, TornNeedsTwoWrites, Querying
<1> QED
  BY <1>1, TypeInit, TypeStep, LoadInit, LoadIndStep, PTL DEF Spec

LEMMA StaleInit == Init => StaleExplained
  BY DEF Init, StaleExplained, Fresh

\* A load that fills the cache and saw one configuration only fills in the
\* present one; every other step that makes the entry stale gives a reason.
LEMMA StaleStep == TypeOK /\ LoadInd /\ StaleExplained /\ [Next]_vars => StaleExplained'
<1> SUFFICES ASSUME TypeOK, LoadInd, StaleExplained, [Next]_vars, ~Fresh'
             PROVE  Writing' \/ causes' # {}
  BY DEF StaleExplained
<1>1. ASSUME NEW r \in Loaders, Fill(r)
      PROVE  causes' # {}
  <2>1. cache' = load[r].config /\ Config(db)' = Config(db)
    BY <1>1 DEF Fill, Config, Default, Settings
  <2>2. load[r].config # Config(db)
    BY <2>1 DEF Fresh
  <2>3. LoadSound(r)
    BY <1>1 DEF Fill, LoadInd, Querying
  <2>4. since[r] # {Config(db)}
    BY <2>2, <2>3 DEF LoadSound
  <2> QED
    BY <1>1, <2>4 DEF Fill
<1>2. ASSUME NEW w \in Editors, Commit(w)
      PROVE  Writing'
  BY <1>2 DEF Commit, Writing, TypeOK, Edits
<1>3. ASSUME NEW w \in Editors, CommitUnseen(w)
      PROVE  causes' # {}
  BY <1>3 DEF CommitUnseen, Fresh
<1>4. ASSUME NEW call \in Calls, DirectEdit(Head(call.settings), call.to)
      PROVE  causes' # {}
  BY <1>4 DEF DirectEdit, Fresh
<1>5. ASSUME UNCHANGED <<db, cache, causes>>,
             \A w \in Editors : edit[w].at = "invalidate" => edit'[w].at = "invalidate"
      PROVE  Writing' \/ causes' # {}
  <2>1. ~Fresh
    BY <1>5 DEF Fresh, Config, Default, Settings
  <2> QED
    BY <1>5, <2>1 DEF StaleExplained, Writing
<1>6. ASSUME NEW r \in Loaders,
             Miss(r) \/ QueryChat(r) \/ QueryOverrides(r) \/ LoadFails(r)
      PROVE  Writing' \/ causes' # {}
  BY <1>5, <1>6 DEF Miss, QueryChat, QueryOverrides, LoadFails
<1>7. ASSUME NEW w \in Editors, WriteFails(w) \/ \E call \in Calls : Begin(w, call)
      PROVE  Writing' \/ causes' # {}
  BY <1>5, <1>7 DEF WriteFails, Begin, TypeOK, Edits
<1>8. ASSUME Expire \/ Restart \/ \E w \in Editors : Invalidate(w)
      PROVE  FALSE
  BY <1>8 DEF Expire, Restart, Invalidate, Fresh
<1>9. CASE UNCHANGED vars
  BY <1>5, <1>9 DEF vars
<1> QED
  BY <1>1, <1>2, <1>3, <1>4, <1>6, <1>7, <1>8, <1>9 DEF Next, LoadStep, EditStep

\* However loads and writes interleave, a stale entry has one of the four
\* reasons: a writer about to drop it, a load that overlapped a write, a commit
\* nobody saw, or an edit by hand.
THEOREM StaleSound == Spec => []StaleExplained
  BY TypeInit, TypeStep, LoadInit, LoadIndStep, StaleInit, StaleStep, PTL DEF Spec
=============================================================================
