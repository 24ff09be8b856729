---------------------------- MODULE GroupColonies ----------------------------
(***************************************************************************)
(* Group events: the gateway queues that the bot joined a group or became  *)
(* its admin, the core welcomes the one and makes a colony of the other,   *)
(* several at once.  Every step is a publish, a query or an RPC that may   *)
(* fail; a failure is logged and the event acked, a crash redelivers it.   *)
(* The number of a colony comes from IdempotentCounter.                    *)
(***************************************************************************)
EXTENDS Naturals, Sequences, FiniteSets, SequencesExt

CONSTANTS Groups,
          Workers,          \* deliveries handled at once (the prefetch)
          RECENT_LIMIT,     \* keys the counter remembers
          MaxEvents,        \* bound on the events of a group
          MaxCrashes        \* bound on the crashes of the core

VARIABLES queue,            \* how often each event waits in group_events
          worker,           \* what each delivery is at
          sent,             \* events published so far
          hasCounter,       \* whether the counter's document was created
          number,           \* its count
          recent,           \* its recent_keys
          title,            \* the colony number in a group's subject, 0 for none
          counted,          \* the groups whose key incremented the count
          forgotten,        \* how many keys fell out of recent_keys
          repeated,         \* the groups that were taken for counted already
          raced,            \* two upserts tried to create the document
          crashes

vars == <<queue, worker, sent, hasCounter, number, recent, title, counted, forgotten,
          repeated, raced, crashes>>
counter == <<hasCounter, number, recent, counted, forgotten, repeated, raced>>

Events == {"promote", "joined"} \X Groups
Idle == [step |-> "idle"]
Steps == <<"metadata", "demote", "count", "subject", "tell", "describe", "picture">>

Handlings ==
    {Idle}
      \cup [event: Events, step: {"welcome", "metadata", "demote", "count", "insert", "read",
                                 "tell", "describe", "picture"}]
      \cup [event: Events, step: {"subject"}, colony: Nat]

TypeOK == /\ queue \in [Events -> Nat] /\ sent \in [Events -> 0..MaxEvents]
          /\ worker \in [Workers -> Handlings]
          /\ hasCounter \in BOOLEAN /\ number \in Nat
          /\ recent \in Seq(counted) /\ Len(recent) <= RECENT_LIMIT
          /\ title \in [Groups -> Nat]
          /\ counted \subseteq Groups /\ repeated \subseteq Groups
          /\ forgotten \in Nat /\ raced \in BOOLEAN /\ crashes \in 0..MaxCrashes

Init == /\ queue = [e \in Events |-> 0] /\ sent = [e \in Events |-> 0]
        /\ worker = [w \in Workers |-> Idle]
        /\ hasCounter = FALSE /\ number = 0 /\ recent = <<>>
        /\ title = [g \in Groups |-> 0]
        /\ counted = {} /\ forgotten = 0 /\ repeated = {} /\ raced = FALSE
        /\ crashes = 0

GroupEvent(e) ==
    /\ sent[e] < MaxEvents
    /\ sent' = [sent EXCEPT ![e] = @ + 1]
    /\ queue' = [queue EXCEPT ![e] = @ + 1]
    /\ UNCHANGED <<worker, counter, title, crashes>>

To(w, step) == worker' = [worker EXCEPT ![w].step = step]
Ack(w) == worker' = [worker EXCEPT ![w] = Idle]
At(w, step) == worker[w].step = step
GroupOf(w) == worker[w].event[2]

Deliver(w, e) ==
    /\ worker[w] = Idle
    /\ queue[e] > 0
    /\ queue' = [queue EXCEPT ![e] = @ - 1]
    /\ worker' = [worker EXCEPT ![w] =
         [event |-> e, step |-> IF e[1] = "joined" THEN "welcome" ELSE "metadata"]]
    /\ UNCHANGED <<sent, counter, title, crashes>>

\* The welcome is published, or this step of the colony was the last one.
Done(w) == /\ worker[w].step \in {"welcome", "picture"}
           /\ Ack(w)
           /\ UNCHANGED <<queue, sent, counter, title, crashes>>

\* The gateway does not answer in time, a publish, MongoDB or the download fails:
\* the rest of the steps is given up.  An owner who is an admin ends it as well.
GiveUp(w) == /\ worker[w] # Idle
             /\ Ack(w)
             /\ UNCHANGED <<queue, sent, counter, title, crashes>>

\* One publish after the other.
Proceed(w) ==
    /\ worker[w].step \in {"metadata", "demote", "tell", "describe"}
    /\ LET i == CHOOSE i \in DOMAIN Steps : At(w, Steps[i]) IN To(w, Steps[i + 1])
    /\ UNCHANGED <<queue, sent, counter, title, crashes>>

Remember(key) == IF Len(recent) < RECENT_LIMIT THEN Append(recent, key)
                                               ELSE Append(Tail(recent), key)

Increment(w) == LET g == GroupOf(w) IN
    /\ hasCounter' = TRUE
    /\ number' = number + 1
    /\ recent' = Remember(g)
    /\ counted' = counted \cup {g}
    /\ forgotten' = forgotten + Cardinality(ToSet(recent) \ ToSet(recent'))
    /\ worker' = [worker EXCEPT ![w] = [event |-> @.event, step |-> "subject",
                                        colony |-> number + 1]]

\* Mutant: the filter does not ask whether the key was counted.
KeyAny(g) == TRUE

\* recent_keys: {$ne: key}
KeyNew(g) == ~Contains(recent, g)

\* One atomic update when the filter matches; else the upsert goes on to insert.
CountColony(w) ==
    /\ At(w, "count")
    /\ IF hasCounter /\ KeyNew(GroupOf(w)) THEN Increment(w) /\ UNCHANGED <<repeated, raced>>
       ELSE To(w, "insert")
            /\ UNCHANGED counter
    /\ UNCHANGED <<queue, sent, title, crashes>>

\* Inserting next to the document is a duplicate key, also when another colony has
\* just created it.
InsertCounter(w) ==
    /\ At(w, "insert")
    /\ IF ~hasCounter THEN Increment(w) /\ UNCHANGED <<repeated, raced>>
       ELSE /\ To(w, "read")
            /\ repeated' = repeated \cup {GroupOf(w)}
            /\ raced' = (raced \/ KeyNew(GroupOf(w)))
            /\ UNCHANGED <<hasCounter, number, recent, counted, forgotten>>
    /\ UNCHANGED <<queue, sent, title, crashes>>

\* The zero step reads the count of the moment.
ReadCount(w) ==
    /\ At(w, "read")
    /\ worker' = [worker EXCEPT ![w] = [event |-> @.event, step |-> "subject",
                                        colony |-> number]]
    /\ UNCHANGED <<queue, sent, counter, title, crashes>>

Rename(w) ==
    /\ At(w, "subject")
    /\ title' = [title EXCEPT ![GroupOf(w)] = worker[w].colony]
    /\ worker' = [worker EXCEPT ![w] = [event |-> @.event, step |-> "tell"]]
    /\ UNCHANGED <<queue, sent, counter, crashes>>

\* What was not acked is delivered again.
Crash == /\ crashes < MaxCrashes
         /\ crashes' = crashes + 1
         /\ queue' = [e \in Events |-> queue[e]
              + Cardinality({w \in Workers : worker[w] # Idle /\ worker[w].event = e})]
         /\ worker' = [w \in Workers |-> Idle]
         /\ UNCHANGED <<sent, counter, title>>

Next == \/ \E e \in Events : GroupEvent(e)
        \/ \E w \in Workers, e \in Events : Deliver(w, e)
        \/ \E w \in Workers : \/ Done(w) \/ GiveUp(w) \/ Proceed(w)
                              \/ CountColony(w) \/ InsertCounter(w) \/ ReadCount(w)
                              \/ Rename(w)
        \/ Crash

Spec == Init /\ [][Next]_vars

-----------------------------------------------------------------------------
\* Over redeliveries and colonies made at once, a group counts once as long as its
\* key is remembered; every title was counted, except by the race that creates the
\* counter; and two groups share a number only when one was counted before.
ColoniesCounted ==
    /\ number \in Cardinality(counted)..(Cardinality(counted) + forgotten)
    /\ \A g \in Groups : title[g] # 0 => g \in counted \/ raced
    /\ \A g, h \in Groups : g # h /\ title[g] = title[h] /\ title[g] # 0 =>
         {g, h} \cap repeated # {}
=============================================================================
