------------------------------ MODULE Services ------------------------------
(***************************************************************************)
(* The services beside the command path, none of which shares state with   *)
(* another: a behaviour follows one of them, `part`, on its own bounds.    *)
(***************************************************************************)
EXTENDS Integers, Sequences, FiniteSets

CONSTANTS
    MaxVersion, MaxSessions,                                    \* CredsStore
    Users, Owners, Group, UserCapacity, GroupCapacity, Rate, MAX_TURNS, WINDOW,
    MaxCost, MaxInFlight, MaxTurns, MaxTime, MaxOutages,        \* AgentLimits
    Chats, NoChat, LastDay, MaxTroubles,                        \* BirthdayGreetings
    Groups, Workers, RECENT_LIMIT, MaxEvents, MaxCrashes,       \* GroupColonies
    Platforms, Tidy, MaxRetries,                                \* PlatformSupervisor
    Names, People, MaxEdits                                     \* MentionLists

\* The bounds let something happen.
ASSUME CredsAssumption == MaxVersion \in Nat /\ MaxSessions \in Nat \ {0}
ASSUME LimitsAssumption == /\ Owners \subseteq Users /\ Group \notin Users
                           /\ {UserCapacity, GroupCapacity, Rate, WINDOW} \subseteq Nat \ {0}
                           /\ {MAX_TURNS, MaxCost, MaxInFlight} \subseteq Nat
                           /\ {MaxTurns, MaxTime, MaxOutages} \subseteq Nat
ASSUME GreetingsAssumption == NoChat \notin Chats /\ LastDay \in Nat \ {0} /\ MaxTroubles \in Nat
ASSUME ColoniesAssumption == /\ IsFiniteSet(Groups) /\ IsFiniteSet(Workers)
                             /\ RECENT_LIMIT \in Nat \ {0}
                             /\ {MaxEvents, MaxCrashes} \subseteq Nat
ASSUME MentionsAssumption == MaxEdits \in Nat
ASSUME SupervisorAssumption == Tidy \subseteq Platforms /\ MaxRetries \in Nat

VARIABLES
    part,
    document, stored, session, version, saves,
    now, bucket, window, turn, asked, used, outages, late,
    day, step, today, todo, chat, until, claimed, greeted, excused, redisDown, troubles,
    queue, worker, sent, hasCounter, number, recent, title, counted, forgotten,
    repeated, raced, crashes,
    status, task, shutdowns, app, open, halfOpen, raised, retries,
    hasLists, lists, edits, made

creds == <<document, stored, session, version, saves>>
limits == <<now, bucket, window, turn, asked, used, outages, late>>
greetings == <<day, step, today, todo, chat, until, claimed, greeted, excused,
               redisDown, troubles>>
colonies == <<queue, worker, sent, hasCounter, number, recent, title, counted,
              forgotten, repeated, raced, crashes>>
supervisor == <<status, task, shutdowns, app, open, halfOpen, raised, retries>>
mentions == <<hasLists, lists, edits, made>>
vars == <<part, creds, limits, greetings, colonies, supervisor, mentions>>

\* Everyone talks to the bot in a chat of their own and in the group.
Conversations == (Users \ Owners) \X {"dm", "group"} \cup Owners \X {"dm"}

Creds == INSTANCE CredsStore
Limits == INSTANCE AgentLimits
Greetings == INSTANCE BirthdayGreetings
Colonies == INSTANCE GroupColonies
Supervisor == INSTANCE PlatformSupervisor
Mentions == INSTANCE MentionLists

Init == /\ part \in {"creds", "limits", "greetings", "colonies", "supervisor", "mentions"}
        /\ Creds!Init /\ Limits!Init /\ Greetings!Init
        /\ Colonies!Init /\ Supervisor!Init /\ Mentions!Init
        /\ part # "creds" => document

Next == \/ /\ part = "creds" /\ Creds!Next
           /\ UNCHANGED <<part, limits, greetings, colonies, supervisor, mentions>>
        \/ /\ part = "limits" /\ Limits!Next
           /\ UNCHANGED <<part, creds, greetings, colonies, supervisor, mentions>>
        \/ /\ part = "greetings" /\ Greetings!Next
           /\ UNCHANGED <<part, creds, limits, colonies, supervisor, mentions>>
        \/ /\ part = "colonies" /\ Colonies!Next
           /\ UNCHANGED <<part, creds, limits, greetings, supervisor, mentions>>
        \/ /\ part = "supervisor" /\ Supervisor!Next
           /\ UNCHANGED <<part, creds, limits, greetings, colonies, mentions>>
        \/ /\ part = "mentions" /\ Mentions!Next
           /\ UNCHANGED <<part, creds, limits, greetings, colonies, supervisor>>

Spec == Init /\ [][Next]_vars

-----------------------------------------------------------------------------
\* The saved credentials are a register that only a newer snapshot replaces
\* (MongoDBAuthState.saveCreds implements NewestSnapshot).
KeepsNewest == Creds!KeepsNewest

\* Nobody spends more than their bucket held, but for the turns under way together,
\* the outages of Redis and the clocks that were late (TokenBudget).
SpendingBounded == Limits!SpendingBounded

\* A chat is greeted once a day, whatever restarts and fails (BirthdayScheduler).
GreetedOnce == Greetings!GreetedOnce

\* A group is counted once, and only the colonies counted before share a number
\* (StealGroupService, IdempotentCounter).
ColoniesCounted == Colonies!ColoniesCounted

\* What a stop does not close is explained (PlatformSupervisor).
StopClosesAll == Supervisor!StopClosesAll

\* No two mention lists of a chat have the same name (CreateMentionList).
NamesUnique == Mentions!NamesUnique
=============================================================================
