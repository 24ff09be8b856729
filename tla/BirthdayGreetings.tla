-------------------------- MODULE BirthdayGreetings --------------------------
(***************************************************************************)
(* BirthdayScheduler: the core greets each chat's birthdays when it starts *)
(* and whenever the day turns in Brasilia, one chat after the other.  A    *)
(* chat is claimed in Redis for the day before it is greeted, so a restart *)
(* does not greet it again.  Every chat has a birthday on every day.       *)
(***************************************************************************)
EXTENDS Naturals

CONSTANTS Chats, NoChat, LastDay,           \* bound on the days
          MaxTroubles               \* bound on restarts, failures and Redis outages

VARIABLES day,
          step,         \* down, start, celebrate, send, sleep: where run() is
          today,        \* the date celebrate() was called with
          todo,         \* its chats still to come
          chat,         \* the chat it is greeting
          until,        \* the day whose midnight it sleeps for
          claimed,      \* birthday_sent keys: <<chat, day>>
          greeted,      \* how often each chat was greeted for each day
          excused,      \* <<chat, day>> whose greeting something prevented
          redisDown,    \* days on which Redis did not answer a claim
          troubles

vars == <<day, step, today, todo, chat, until, claimed, greeted, excused, redisDown, troubles>>
loop == <<step, today, todo, chat, until>>

Days == 1..LastDay

TypeOK == /\ day \in Days /\ today \in 0..LastDay /\ until \in 0..(LastDay + 1)
          /\ step \in {"down", "start", "celebrate", "send", "sleep"}
          /\ todo \subseteq Chats /\ chat \in Chats \cup {NoChat}
          /\ claimed \subseteq Chats \X Days /\ excused \subseteq Chats \X Days
          /\ greeted \in [Chats \X Days -> Nat]
          /\ redisDown \subseteq Days
          /\ troubles \in 0..MaxTroubles

Init == /\ day = 1 /\ step = "down" /\ today = 0 /\ todo = {} /\ chat = NoChat /\ until = 0
        /\ claimed = {} /\ greeted = [cd \in Chats \X Days |-> 0]
        /\ excused = {} /\ redisDown = {} /\ troubles = 0

Trouble == troubles < MaxTroubles /\ troubles' = troubles + 1

\* Mutant: the first celebration waits for midnight, like the others.
AfterStartSleeping == "sleep"

\* Celebrating on start covers a midnight the core was down for.
AfterStart == "start"

Start == /\ step = "down"
         /\ step' = AfterStart
         /\ until' = day + 1
         /\ UNCHANGED <<day, today, todo, chat, claimed, greeted, excused, redisDown, troubles>>

\* celebrate(): the chats are read once; its dates cover February 29.
Celebrate == /\ \/ step = "start"
                \/ step = "sleep" /\ day >= until
             /\ step' = "celebrate"
             /\ today' = day
             /\ todo' = Chats
             /\ UNCHANGED <<day, chat, until, claimed, greeted, excused, redisDown, troubles>>

Claim(c) == /\ step = "celebrate" /\ c \in todo
            /\ todo' = todo \ {c}
            /\ claimed' = claimed \cup {<<c, today>>}
            /\ IF <<c, today>> \in claimed THEN UNCHANGED <<step, chat>>
                                           ELSE step' = "send" /\ chat' = c
            /\ UNCHANGED <<day, today, until, greeted, excused, redisDown, troubles>>

\* A duplicate greeting beats a missed birthday.
ClaimUnanswered(c) ==
    /\ step = "celebrate" /\ c \in todo
    /\ Trouble
    /\ todo' = todo \ {c}
    /\ step' = "send" /\ chat' = c
    /\ redisDown' = redisDown \cup {today}
    /\ UNCHANGED <<day, today, until, claimed, greeted, excused>>

Send == /\ step = "send"
        /\ greeted' = [greeted EXCEPT ![<<chat, today>>] = @ + 1]
        /\ step' = "celebrate" /\ chat' = NoChat
        /\ UNCHANGED <<day, today, todo, until, claimed, excused, redisDown, troubles>>

Sleep == step' = "sleep" /\ until' = day + 1 /\ todo' = {} /\ chat' = NoChat

\* The next midnight is the one after the celebration ended.
Celebrated == /\ step = "celebrate" /\ todo = {}
              /\ Sleep
              /\ UNCHANGED <<day, today, claimed, greeted, excused, redisDown, troubles>>

\* Reading the calendar, the message or publishing the greeting fails: the loop
\* logs it and gives up the rest of the day.
Fails == /\ step \in {"celebrate", "send"}
         /\ Trouble
         /\ Sleep
         /\ excused' = excused \cup ((todo \cup {chat}) \cap Chats) \X {today}
         /\ UNCHANGED <<day, today, claimed, greeted, redisDown>>

\* The core stops or crashes; a chat that was claimed is not greeted after it.
Stop == /\ step # "down"
        /\ Trouble
        /\ step' = "down" /\ todo' = {} /\ chat' = NoChat
        /\ excused' = excused \cup ({chat} \cap Chats) \X {today}
        /\ UNCHANGED <<day, today, until, claimed, greeted, redisDown>>

\* A loop that sleeps wakes on its day.  A day ends unexcused unless the core is
\* down, or still celebrating: the next day then passes while nobody sleeps for it.
Midnight == /\ day < LastDay
            /\ step # "start" /\ ~(step = "sleep" /\ day >= until)
            /\ day' = day + 1
            /\ excused' = excused
                 \cup (IF step = "down" THEN Chats \X {day} ELSE {})
                 \cup (IF step \in {"celebrate", "send"} THEN Chats \X {day, day + 1} ELSE {})
            /\ UNCHANGED <<loop, claimed, greeted, redisDown, troubles>>

Next == \/ Start \/ Celebrate \/ Send \/ Celebrated \/ Fails \/ Stop \/ Midnight
        \/ \E c \in Chats : Claim(c) \/ ClaimUnanswered(c)

Spec == Init /\ [][Next]_vars

-----------------------------------------------------------------------------
\* Over restarts and failures, a chat is greeted once a day: twice only when Redis
\* did not answer a claim, never only when the core was down as the day ended, the
\* greeting was claimed and then lost, or a celebration ran past midnight.
GreetedOnce == \A c \in Chats, d \in Days :
    /\ greeted[<<c, d>>] > 1 => d \in redisDown
    /\ d < day /\ greeted[<<c, d>>] = 0 => <<c, d>> \in excused
=============================================================================
