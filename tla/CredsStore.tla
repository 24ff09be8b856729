----------------------------- MODULE CredsStore -----------------------------
(***************************************************************************)
(* The gateway's WhatsApp credentials in MongoDB.  Every creds.update of   *)
(* the socket saves a snapshot, nothing queues the saves, and the pooled   *)
(* connections land them in any order.  A reconnect reads the document and *)
(* counts on from its version while saves of the socket before may still   *)
(* be under way.                                                           *)
(***************************************************************************)
EXTENDS Naturals

CONSTANTS MaxVersion, MaxSessions       \* bounds on the saves and the reconnects

VARIABLES document,         \* whether the document is there
          stored,           \* the snapshot it holds; version 0 when none or unversioned
          session,          \* the socket whose saveCreds is subscribed
          version,          \* its credsVersion
          saves             \* the saves under way, each with its next command

vars == <<document, stored, session, version, saves>>

Snapshots == [session: 0..MaxSessions, version: 0..MaxVersion]
Saves == [snapshot: Snapshots, step: {"update", "insert", "retry"}]

TypeOK == /\ document \in BOOLEAN
          /\ stored \in Snapshots
          /\ session \in 1..MaxSessions
          /\ version \in 0..MaxVersion
          /\ saves \subseteq Saves

\* A document written before there were versions has none.
Init == /\ document \in BOOLEAN
        /\ stored = [session |-> 0, version |-> 0]
        /\ session = 1
        /\ version = 0
        /\ saves = {}

\* The snapshot and its number are taken before the first await.
SaveCreds ==
    /\ version < MaxVersion
    /\ version' = version + 1
    /\ saves' = saves \cup {[snapshot |-> [session |-> session, version |-> version + 1],
                             step |-> "update"]}
    /\ UNCHANGED <<document, stored, session>>

\* Mutant: the filter looks for the document alone, whatever version it holds.
AnyVersion(s) == document

\* version: {$not: {$gte: credsVersion}}
Matches(s) == document /\ stored.version < s.snapshot.version

Advance(s, step) == saves' = (saves \ {s}) \cup {[s EXCEPT !.step = step]}
Finish(s) == saves' = saves \ {s}

\* An upsert that matches nothing goes on to insert.
Update(s) ==
    /\ s.step = "update"
    /\ IF Matches(s) THEN stored' = s.snapshot /\ Finish(s)
                     ELSE Advance(s, "insert") /\ UNCHANGED stored
    /\ UNCHANGED <<document, session, version>>

\* The _id is unique: inserting next to a newer version is a duplicate key.
Insert(s) ==
    /\ s.step = "insert"
    /\ document' = TRUE
    /\ IF document THEN Advance(s, "retry") /\ UNCHANGED stored
                 ELSE stored' = s.snapshot /\ Finish(s)
    /\ UNCHANGED <<session, version>>

Retry(s) ==
    /\ s.step = "retry"
    /\ stored' = IF Matches(s) THEN s.snapshot ELSE stored
    /\ Finish(s)
    /\ UNCHANGED <<document, session, version>>

\* MongoDB cannot be reached, or the process ends with the save under way.
Fail(s) == Finish(s) /\ UNCHANGED <<document, stored, session, version>>

Reconnect ==
    /\ session < MaxSessions
    /\ session' = session + 1
    /\ version' = IF document THEN stored.version ELSE 0
    /\ UNCHANGED <<document, stored, saves>>

Next == \/ SaveCreds
        \/ \E s \in saves : Update(s) \/ Insert(s) \/ Retry(s) \/ Fail(s)
        \/ Reconnect

Spec == Init /\ [][Next]_vars

-----------------------------------------------------------------------------
Newest == INSTANCE NewestSnapshot
            WITH kept <- stored, pending <- {s.snapshot : s \in saves}

\* The version filter and the retry after a duplicate key make the document a
\* register that only a newer snapshot replaces, whatever lands when.
KeepsNewest == Newest!Spec
=============================================================================
