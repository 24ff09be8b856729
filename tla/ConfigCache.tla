---------------------------- MODULE ConfigCache ----------------------------
(***************************************************************************)
(* The configuration of one chat: its rows in Postgres (SqlConfigStore),   *)
(* the entry CachedConfigStore keeps of them, the gate's loads and the     *)
(* ,config calls that write.  Entries of different chats share nothing, so *)
(* one chat stands for all.  One step is what a coroutine does between two *)
(* awaits, or one statement at the database.                               *)
(*                                                                         *)
(* A configuration maps the setting "policy" to the chat's policy and      *)
(* every command to its override.  Sessions run at READ COMMITTED, and     *)
(* selectinload reads the overrides in a statement of its own, so a load   *)
(* may see the policy of one moment and the overrides of a later one.      *)
(***************************************************************************)
EXTENDS Naturals, Sequences, Functions

CONSTANTS
    Commands,   \* commands that can be toggled
    NoRow,      \* the chat has no row
    NoEntry,    \* the cache has no entry for the chat
    Loaders,    \* coroutines that load the configuration
    Editors,    \* coroutines that run ,config
    Calls,      \* what a ,config call may write: its settings and the value
    MaxCalls,   \* ,config calls in a behaviour (bound)
    Budget,     \* how often each kind of fault may happen (bound)
    MaxFaults   \* how many faults may happen together (bound)

Settings == {"policy"} \cup Commands
Values   == {"open", "curated", "on", "off", "unset"}
Configs  == [Settings -> Values]

FaultKinds == {"load", "write", "unseen", "direct", "restart"}

ASSUME CacheAssumption ==
    /\ "policy" \notin Commands
    /\ NoRow \notin Configs
    /\ NoEntry \notin Configs
    /\ \A call \in Calls :
          /\ call.settings \in Seq(Settings) \ {<<>>}
          /\ call.to \in Values
    /\ MaxCalls \in Nat
    /\ Budget \in [FaultKinds -> Nat]
    /\ MaxFaults \in Nat

VARIABLES
    db,       \* the chat's rows, or NoRow
    cache,    \* the entry of CachedConfigStore._cache, or NoEntry
    load,     \* load[r]: the load of loader r
    edit,     \* edit[w]: the ,config call of editor w
    since,    \* since[r]: the configurations the chat had since r's first query
    causes,   \* why the entry may be stale although nobody is writing
    calls,    \* ,config calls so far
    faults    \* faults[k]: how often k happened so far

vars == <<db, cache, load, edit, since, causes, calls, faults>>

Default  == [s \in Settings |-> IF s = "policy" THEN "open" ELSE "unset"]
IdleLoad == [at |-> "idle", config |-> Default]
IdleEdit == [at |-> "idle", todo |-> <<>>, to |-> "unset"]

Loads == [at : {"idle", "query", "overrides", "fill"}, config : Configs]
Edits == [at : {"idle", "write", "invalidate"}, todo : Seq(Settings), to : Values]

\* ChatConfig of the rows: a chat without a row has the default.
Config(rows) == IF rows = NoRow THEN Default ELSE rows

TypeOK ==
    /\ db \in Configs \cup {NoRow}
    /\ cache \in Configs \cup {NoEntry}
    /\ load \in [Loaders -> Loads]
    /\ edit \in [Editors -> Edits]
    /\ \A w \in Editors : edit[w].at # "idle" => edit[w].todo # <<>>
    /\ since \in [Loaders -> SUBSET Configs]
    /\ causes \subseteq {"overlap", "unseen", "direct"}
    /\ calls \in Nat
    /\ faults \in [FaultKinds -> Nat]

Init ==
    /\ db = NoRow
    /\ cache = NoEntry
    /\ load = [r \in Loaders |-> IdleLoad]
    /\ edit = [w \in Editors |-> IdleEdit]
    /\ since = [r \in Loaders |-> {}]
    /\ causes = {}
    /\ calls = 0
    /\ faults = [k \in FaultKinds |-> 0]

FaultsLeft == FoldFunction(+, 0, faults) < MaxFaults

Fault(k) ==
    /\ faults[k] < Budget[k]
    /\ FaultsLeft
    /\ faults' = [faults EXCEPT ![k] = @ + 1]

\* The loads that have queried and not filled the cache yet.
Querying == {r \in Loaders : load[r].at \in {"overrides", "fill"}}

-----------------------------------------------------------------------------
(* CachedConfigStore.load. *)

\* The entry is absent (or expired, see Expire), and the coroutine waits for
\* a database connection.  A hit changes nothing.
Miss(r) ==
    /\ load[r].at = "idle"
    /\ cache = NoEntry
    /\ load' = [load EXCEPT ![r].at = "query"]
    /\ UNCHANGED <<db, cache, edit, since, causes, calls, faults>>

\* Mutant: a chat without a row is loaded as None.
QueryChatRaw(r) ==
    /\ load[r].at = "query"
    /\ load' = [load EXCEPT ![r] =
                    [at |-> IF db = NoRow THEN "fill" ELSE "overrides", config |-> db]]
    /\ since' = [since EXCEPT ![r] = {Config(db)}]
    /\ UNCHANGED <<db, cache, edit, causes, calls, faults>>

\* The statement that reads the chat's row; without one the load is over.
QueryChat(r) ==
    /\ load[r].at = "query"
    /\ load' = [load EXCEPT ![r] =
                    [at |-> IF db = NoRow THEN "fill" ELSE "overrides",
                     config |-> Config(db)]]
    /\ since' = [since EXCEPT ![r] = {Config(db)}]
    /\ UNCHANGED <<db, cache, edit, causes, calls, faults>>

\* selectinload's statement, which reads the overrides.
QueryOverrides(r) ==
    /\ load[r].at = "overrides"
    /\ load' = [load EXCEPT ![r] =
                    [at |-> "fill",
                     config |-> [Config(db) EXCEPT !["policy"] = load[r].config["policy"]]]]
    /\ UNCHANGED <<db, cache, edit, since, causes, calls, faults>>

EndLoad(r) ==
    /\ load' = [load EXCEPT ![r] = IdleLoad]
    /\ since' = [since EXCEPT ![r] = {}]

\* The entry is written, whatever happened to the cache since the miss.
Fill(r) ==
    /\ load[r].at = "fill"
    /\ cache' = load[r].config
    /\ causes' = IF since[r] = {Config(db)} THEN {} ELSE {"overlap"}
    /\ EndLoad(r)
    /\ UNCHANGED <<db, edit, calls, faults>>

\* A query raises.
LoadFails(r) ==
    /\ load[r].at \in {"query", "overrides"}
    /\ Fault("load")
    /\ EndLoad(r)
    /\ UNCHANGED <<db, cache, edit, causes, calls>>

-----------------------------------------------------------------------------
(* ConfigEditor and the writes of SqlConfigStore. *)

\* The rows after setting s is set to v.  set_policy and set_override create
\* the chat's row; clear_override deletes what is there.
Written(rows, s, v) ==
    IF rows = NoRow /\ v = "unset" THEN NoRow
    ELSE [Config(rows) EXCEPT ![s] = v]

\* The database commits `rows', which every load under way may see.
CommitRows(rows) ==
    /\ db' = rows
    /\ since' = [r \in Loaders |->
                    IF r \in Querying THEN since[r] \cup {Config(rows)} ELSE since[r]]

\* Mutant: the upsert of a policy also drops the chat's overrides.
CommitDrops(w) ==
    LET s == Head(edit[w].todo) IN
    /\ edit[w].at = "write"
    /\ CommitRows(IF s = "policy" THEN [Default EXCEPT !["policy"] = edit[w].to]
                  ELSE Written(db, s, edit[w].to))
    /\ edit' = [edit EXCEPT ![w].at = "invalidate"]
    /\ UNCHANGED <<cache, load, causes, calls, faults>>

\* Mutant: the last write of a call does not invalidate.
CommitForgets(w) ==
    LET s == Head(edit[w].todo) IN
    /\ edit[w].at = "write"
    /\ CommitRows(Written(db, s, edit[w].to))
    /\ edit' = [edit EXCEPT ![w] =
                    IF Len(@.todo) = 1 THEN IdleEdit
                    ELSE [at |-> "invalidate", todo |-> @.todo, to |-> @.to]]
    /\ UNCHANGED <<cache, load, causes, calls, faults>>

\* ConfigEditor.apply has resolved its token to the settings to write.
Begin(w, call) ==
    /\ edit[w].at = "idle"
    /\ calls < MaxCalls
    /\ calls' = calls + 1
    /\ edit' = [edit EXCEPT ![w] =
                    [at |-> "write", todo |-> call.settings, to |-> call.to]]
    /\ UNCHANGED <<db, cache, load, since, causes, faults>>

\* The next setting's transaction commits.
Commit(w) ==
    LET s == Head(edit[w].todo) IN
    /\ edit[w].at = "write"
    /\ CommitRows(Written(db, s, edit[w].to))
    /\ edit' = [edit EXCEPT ![w].at = "invalidate"]
    /\ UNCHANGED <<cache, load, causes, calls, faults>>

\* The session is closed; the write returns to CachedConfigStore, which drops
\* the entry, and to the loop of ConfigEditor.
Invalidate(w) ==
    /\ edit[w].at = "invalidate"
    /\ cache' = NoEntry
    /\ causes' = {}
    /\ edit' = [edit EXCEPT ![w] =
                    IF Len(@.todo) = 1 THEN IdleEdit
                    ELSE [at |-> "write", todo |-> Tail(@.todo), to |-> @.to]]
    /\ UNCHANGED <<db, load, since, calls, faults>>

\* A write raises before it committed: the rest of the call is not written.
WriteFails(w) ==
    /\ edit[w].at = "write"
    /\ Fault("write")
    /\ edit' = [edit EXCEPT ![w] = IdleEdit]
    /\ UNCHANGED <<db, cache, load, since, causes, calls>>

\* commit() raises although the database committed: the connection is lost
\* before its answer.  Nothing is invalidated.
CommitUnseen(w) ==
    LET s == Head(edit[w].todo) IN
    /\ edit[w].at = "write"
    /\ Fault("unseen")
    /\ CommitRows(Written(db, s, edit[w].to))
    /\ causes' = IF cache = NoEntry THEN causes ELSE causes \cup {"unseen"}
    /\ edit' = [edit EXCEPT ![w] = IdleEdit]
    /\ UNCHANGED <<cache, load, calls>>

-----------------------------------------------------------------------------
(* Time, operators and restarts. *)

\* Mutant: every hit renews the entry's timestamp, so it never grows old.
ExpireNever ==
    /\ cache = NoEntry
    /\ UNCHANGED vars

\* The entry is older than _TTL_SECONDS: a load no longer returns it.
Expire ==
    /\ cache # NoEntry
    /\ cache' = NoEntry
    /\ causes' = {}
    /\ UNCHANGED <<db, load, edit, since, calls, faults>>

\* An edit made straight in the database.
DirectEdit(s, v) ==
    /\ Fault("direct")
    /\ CommitRows(Written(db, s, v))
    /\ causes' = IF cache = NoEntry THEN causes ELSE causes \cup {"direct"}
    /\ UNCHANGED <<cache, load, edit, calls>>

\* The bot dies: coroutines and cache are gone, the rows are not.
Restart ==
    /\ Fault("restart")
    /\ cache' = NoEntry
    /\ causes' = {}
    /\ load' = [r \in Loaders |-> IdleLoad]
    /\ since' = [r \in Loaders |-> {}]
    /\ edit' = [w \in Editors |-> IdleEdit]
    /\ UNCHANGED <<db, calls>>

LoadStep(r) == QueryChat(r) \/ QueryOverrides(r) \/ Fill(r)
EditStep(w) == Commit(w) \/ Invalidate(w)

Next ==
    \/ \E r \in Loaders : Miss(r) \/ LoadStep(r) \/ LoadFails(r)
    \/ \E w \in Editors :
          \/ \E call \in Calls : Begin(w, call)
          \/ EditStep(w) \/ WriteFails(w) \/ CommitUnseen(w)
    \/ \E call \in Calls : DirectEdit(Head(call.settings), call.to)
    \/ Expire
    \/ Restart

Spec == Init /\ [][Next]_vars

\* Queries end, coroutines are resumed, and an hour passes.
Fairness ==
    /\ \A r \in Loaders : WF_vars(LoadStep(r))
    /\ \A w \in Editors : WF_vars(EditStep(w))
    /\ WF_vars(Expire)

FairSpec == Spec /\ Fairness

-----------------------------------------------------------------------------
(* Properties. *)

Fresh == cache # NoEntry => cache = Config(db)

\* A write whose entry is about to be dropped.
Writing == \E w \in Editors : edit[w].at = "invalidate"

\* A stale entry has a reason: a writer that has committed is about to drop
\* it, or the load that filled it overlapped a write, or a write was not seen
\* to commit, or somebody edited the database by hand.  In particular, however
\* loads and writes interleave, a load that overlaps no write never leaves a
\* stale entry, and a call that ends well leaves none behind.
StaleExplained == ~Fresh => Writing \/ causes # {}

\* A load may mix two configurations the chat never had together (the policy
\* of one, the overrides of another), but only if the chat went through three
\* configurations while it was loading: a single write is seen or not seen.
TornNeedsTwoWrites ==
    \A r \in Loaders : load[r].at = "fill" =>
        \A c, d \in since[r] : since[r] = {c, d} => load[r].config \in since[r]

\* Once nobody writes any more, the chat's entry is right from some moment
\* on, whatever happened before: no stale entry survives its hour.
EventuallyFresh == <>[]Fresh
=============================================================================
