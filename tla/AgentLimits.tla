----------------------------- MODULE AgentLimits -----------------------------
(***************************************************************************)
(* What keeps the agent from talking all day: the rate limiter counts the  *)
(* turns of a conversation in a window, the token budget lets a turn call  *)
(* the language model while the sender's bucket, and the group's, hold     *)
(* something, and debits the tokens once the answer reports them.  Both    *)
(* live in Redis, settle with the clock their caller read, and give way    *)
(* when Redis fails.                                                       *)
(***************************************************************************)
EXTENDS Integers, Sequences

CONSTANTS Users, Owners,        \* senders, and those of them without a budget
          Group,                \* the group chat they share
          Conversations,        \* who talks to the bot where: <<user, "dm" or "group">>
          UserCapacity, GroupCapacity,  \* a day's budget; a bucket refills by Rate a tick
          Rate,
          MAX_TURNS, WINDOW,    \* of the rate limiter, the window in ticks
          MaxCost,              \* bound on the tokens of one call
          MaxInFlight,          \* bound on the turns handled at once
          MaxTurns, MaxTime,    \* bounds on the turns asked and on the clock
          MaxOutages            \* bound on the failures of Redis

VARIABLES now,
          bucket,               \* agent_budget: balance, at, and when the key expires
          window,               \* agent_turns: turns, and when the key expires
          turn,                 \* the turns being handled
          asked,                \* how many were asked
          used,                 \* the tokens the provider was made to spend
          outages,              \* how often Redis failed
          late                  \* by how much clocks were late that met no bucket

vars == <<now, bucket, window, turn, asked, used, outages, late>>

Buckets == Users \cup {Group}
Turns == 1..MaxInFlight
NoTurn == [step |-> "none"]
Free(t) == turn[t] = NoTurn /\ \A s \in 1..(t - 1) : turn[s] # NoTurn
NotStored == [stored |-> FALSE]

Capacity(b) == IF b = Group THEN GroupCapacity ELSE UserCapacity

BucketsOf(conversation) ==
    IF conversation[1] \in Owners THEN <<>>
    ELSE IF conversation[2] = "group" THEN <<conversation[1], Group>>
    ELSE <<conversation[1]>>

Init == /\ now = 0
        /\ bucket = [b \in Buckets |-> NotStored]
        /\ window = [c \in Conversations |-> NotStored]
        /\ turn = [t \in Turns |-> NoTurn]
        /\ asked = 0
        /\ used = [b \in Buckets |-> 0]
        /\ outages = 0
        /\ late = 0

InCall(c) == [step |-> "call", conversation |-> c]

\* The buckets are settled one after the other, all with the clock read first.
Settling(step, c, cost) ==
    IF BucketsOf(c) # <<>>
    THEN [step |-> step, conversation |-> c, clock |-> now, cost |-> cost,
          left |-> BucketsOf(c), over |-> FALSE]
    ELSE IF step = "check" THEN InCall(c) ELSE NoTurn

\* SET NX with the window's TTL and INCR in one transaction: INCR keeps the TTL.
Count(c) == IF window[c].stored THEN [window[c] EXCEPT !.turns = @ + 1]
            ELSE [stored |-> TRUE, turns |-> 1, expires |-> now + WINDOW]

\* ThrottledAgent.run, then refill_at before the first call.  A refused turn counts
\* all the same.
Ask(t, c) ==
    /\ Free(t)
    /\ asked < MaxTurns
    /\ asked' = asked + 1
    /\ window' = [window EXCEPT ![c] = Count(c)]
    /\ turn' = [turn EXCEPT ![t] =
         IF window'[c].turns <= MAX_TURNS THEN Settling("check", c, 0) ELSE NoTurn]
    /\ UNCHANGED <<now, bucket, used, outages, late>>

AskUncounted(t, c) ==
    /\ Free(t)
    /\ asked < MaxTurns /\ outages < MaxOutages
    /\ asked' = asked + 1
    /\ outages' = outages + 1
    /\ turn' = [turn EXCEPT ![t] = Settling("check", c, 0)]
    /\ UNCHANGED <<now, bucket, window, used, late>>

\* Mutant: the key lives as long as an empty bucket takes to fill, whatever is owed.
FillTimeUncharged(b, balance) == Capacity(b) \div Rate

\* When the bucket would be full again; a missing one reads as full.
FillTime(b, balance) == (Capacity(b) - balance + Rate - 1) \div Rate

\* The settle script: refill up to the caller's clock, then debit.
Settled(b, clock, cost) ==
    LET balance == IF bucket[b].stored THEN bucket[b].balance ELSE Capacity(b)
        at      == IF bucket[b].stored THEN bucket[b].at ELSE clock
        filled  == balance + (clock - at) * Rate
        left    == (IF filled < Capacity(b) THEN filled ELSE Capacity(b)) - cost
    IN  [stored |-> TRUE, balance |-> left, at |-> clock,
         expires |-> now + FillTime(b, left)]

\* EXPIRE 0 deletes the key at once.
Kept(entry) == IF entry.expires > now THEN entry ELSE NotStored

\* Over budget, the turn is answered without a call.
AfterSettling(r, over) ==
    IF Tail(r.left) # <<>> THEN [r EXCEPT !.left = Tail(@), !.over = over]
    ELSE IF r.step = "check" /\ ~over THEN InCall(r.conversation)
    ELSE NoTurn

Settle(t) ==
    /\ turn[t].step \in {"check", "debit"}
    /\ LET b == Head(turn[t].left)
           settled == Settled(b, turn[t].clock, turn[t].cost)
       IN  /\ bucket' = [bucket EXCEPT ![b] = Kept(settled)]
           /\ turn' = [turn EXCEPT ![t] =
                AfterSettling(turn[t], turn[t].over \/ settled.balance <= 0)]
           /\ late' = late + IF bucket[b].stored THEN 0 ELSE now - turn[t].clock
    /\ UNCHANGED <<now, window, asked, used, outages>>

\* The whole list of balances is given up: a check passes, a debit is lost.
RedisFails(t) ==
    /\ turn[t].step \in {"check", "debit"}
    /\ outages < MaxOutages
    /\ outages' = outages + 1
    /\ turn' = [turn EXCEPT ![t] =
         IF turn[t].step = "check" THEN InCall(turn[t].conversation) ELSE NoTurn]
    /\ UNCHANGED <<now, bucket, window, asked, used, late>>

\* The answer reports its tokens; a turn makes one call.
Called(t, cost) ==
    /\ turn[t].step = "call"
    /\ LET c == turn[t].conversation
           charged == {BucketsOf(c)[i] : i \in DOMAIN BucketsOf(c)}
       IN  /\ turn' = [turn EXCEPT ![t] = Settling("debit", c, cost)]
           /\ used' = [b \in Buckets |-> used[b] + IF b \in charged THEN cost ELSE 0]
    /\ UNCHANGED <<now, bucket, window, asked, outages, late>>

CallFails(t) == /\ turn[t].step = "call"
                /\ turn' = [turn EXCEPT ![t] = NoTurn]
                /\ UNCHANGED <<now, bucket, window, asked, used, outages, late>>

Expire(entries) == [k \in DOMAIN entries |->
    IF entries[k].stored /\ entries[k].expires <= now' THEN NotStored ELSE entries[k]]

Tick == /\ now < MaxTime
        /\ now' = now + 1
        /\ bucket' = Expire(bucket)
        /\ window' = Expire(window)
        /\ UNCHANGED <<turn, asked, used, outages, late>>

Next == \/ \E t \in Turns, c \in Conversations : Ask(t, c) \/ AskUncounted(t, c)
        \/ \E t \in Turns : Settle(t) \/ RedisFails(t) \/ CallFails(t)
        \/ \E t \in Turns, cost \in 1..MaxCost : Called(t, cost)
        \/ Tick

Spec == Init /\ [][Next]_vars

-----------------------------------------------------------------------------
TypeOK ==
    /\ now \in 0..MaxTime
    /\ \A b \in Buckets : bucket[b] # NotStored =>
         bucket[b].balance <= Capacity(b) /\ bucket[b].at <= now /\ bucket[b].expires > now
    /\ \A c \in Conversations : window[c] # NotStored =>
         window[c].turns \in 1..MaxTurns /\ window[c].expires \in (now + 1)..(now + WINDOW)
    /\ asked \in 0..MaxTurns
    /\ used \in [Buckets -> Nat]

\* A check sees what the turns before it were debited, so only the turns under way
\* together can spend past the budget, and each failure of Redis lets one more
\* through.  Clocks settled out of order and the clamp at capacity never give a
\* token twice; a clock read before the key expired does, for as long as it is late.
SpendingBounded == \A b \in Buckets :
    used[b] < Capacity(b) + Rate * (now + late) + MaxCost * (MaxInFlight + outages)
=============================================================================
