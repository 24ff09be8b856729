----------------------- MODULE AgentConversationProofs -----------------------
(* Proofs about AgentConversation, for any number of messages handled at   *)
(* once, any window, retries, redeliveries and failures.                   *)
EXTENDS AgentConversation, SequenceTheorems, TLAPS

Flying(t) == turn[t].step \notin {"unsent", "answered", "dead"}

(* A conversation that waits for a confirmation names what it would run,   *)
(* and no other does.                                                      *)
WellFormed(c) == IF c.status = "confirmation" THEN c.proposal.by \in Turns
                                              ELSE c.proposal = NoProposal

Shape(r) ==
  /\ WellFormed(r.conv)
  /\ r.step \notin {"routed", "decided"} => r.conv.proposal = NoProposal
  /\ r.step = "decided" /\ r.outcome \in {"confirmed", "denied"} =>
       r.conv.status = "confirmation"
  /\ r.step = "queued" /\ ~r.again => ~r.stateless
  /\ r.stateless => r.conv.proposal = NoProposal
  /\ r.step = "unsent" => r = Fresh
  /\ r.step = "routed" => r.outcome = "none"

Handled ==
  /\ WellFormed(saved)
  /\ \A t \in Turns : Shape(turn[t])

(* A message is alone as long as no other is in flight.                    *)
Apart == \A t, u \in Turns : t # u /\ Flying(t) /\ Flying(u) => ~turn[t].alone

(* Whoever was answered, or answered a proposal, has been sent.            *)
Entries(log) == {log[i] : i \in DOMAIN log}
Spent == Entries(handed) \cup Entries(denied)

Sent ==
  /\ \A t \in Turns : turn[t].step = "unsent" => lastSeen.by # t
  /\ \A e \in Spent : e[1].by \in Turns /\ turn[e[2]].step # "unsent"

(* A proposal that left the message it was made by is not made again.      *)
Pending(p) == saved.proposal = p \/ \E t \in Turns : turn[t].conv.proposal = p

Known(p) == Pending(p) \/ \E e \in Spent : e[1] = p

Old(p) ==
  p.by \in Turns => LET r == turn[p.by] IN
    /\ r.step # "unsent"
    /\ Flying(p.by) => p.n <= r.made
    /\ r.step = "decided" /\ r.outcome = "confirm" => p.n < r.made

Numbered == \A p \in Proposals : Known(p) => Old(p)

(* What a message answered alone is forgotten everywhere.                  *)
Forgotten == \A e \in Spent : turn[e[2]].alone => ~Pending(e[1])

(* What is pending was seen last, or something disturbed it, or its        *)
(* message is about to be answered.                                        *)
Disturbed(t) == t \in Turns /\ ~Undisturbed(t)

Seen(c) ==
  c.status = "confirmation" =>
    \/ c.proposal = lastSeen.proposal
    \/ Disturbed(c.proposal.by) \/ Disturbed(lastSeen.by)
    \/ turn[c.proposal.by].step = "result" /\ turn[c.proposal.by].outcome = "confirm"

Looked ==
  /\ Seen(saved)
  /\ \A t \in Turns :
       /\ Seen(turn[t].conv)
       /\ Flying(t) /\ turn[t].alone => turn[t].after = lastSeen
       /\ turn[t].step = "result" /\ Undisturbed(t) /\ saved.status = "confirmation" =>
            saved.proposal = Proposal(t)

Inv == TypeOK /\ Handled /\ Apart /\ Sent /\ Numbered /\ Forgotten /\ Looked

-----------------------------------------------------------------------------
LEMMA Types ==
    /\ Idle \in Conversations /\ NoProposal \in Proposals /\ Nothing \in Answers
    /\ Fresh \in Handlings
  BY DEF Idle, Conversations, NoProposal, Proposals, Nothing, Answers, Fresh, Handlings,
         Steps, Texts, Outcomes, Decisions

\* The operations of Conversation return conversations.
LEMMA ConversationTypes ==
    ASSUME TypeOK, NEW c \in Conversations, NEW p \in Proposals, NEW o
    PROVE  /\ Resumed(c) \in Conversations
           /\ AfterOutcome(c, o, p) \in Conversations
<1>1. now \in Nat
  BY DEF TypeOK
<1>2. Resumed(c) \in Conversations
  BY Types DEF Resumed
<1>3. AwaitConfirmation(c, p) \in Conversations
  BY <1>1 DEF AwaitConfirmation, Conversations
<1>4. AwaitAnswer(c) \in Conversations
  <2>1. c.attempts + 1 \in Nat
    BY DEF Conversations
  <2> QED
    BY <1>1, <2>1, Types DEF AwaitAnswer, Conversations
<1>5. AfterOutcome(c, o, p) \in Conversations
  BY <1>3, <1>4, Types DEF AfterOutcome
<1> QED
  BY <1>2, <1>5

LEMMA ProposalType ==
    ASSUME TypeOK, NEW t \in Turns
    PROVE  Proposal(t) \in Proposals
<1>1. turn[t].made \in Nat
  BY DEF TypeOK, Handlings
<1> QED
  BY <1>1, Types DEF Proposal, Proposals

LEMMA ClosedType ==
    ASSUME NEW r \in Handlings, NEW step \in Steps
    PROVE  /\ Closed(r, step) \in Handlings
           /\ Again(r) \in Handlings
<1>1. Closed(r, step) \in Handlings
  BY Types DEF Closed, Handlings
<1>2. Again(r) \in Handlings
  BY Types DEF Again, Handlings, Steps, Outcomes
<1> QED
  BY <1>1, <1>2

LEMMA TypeInit == ASSUME Init PROVE TypeOK
  BY Types DEF Init, TypeOK

LEMMA TypeStep == ASSUME TypeOK, [Next]_vars PROVE TypeOK'
<1>f. Fault => faults' \in Nat
  BY DEF TypeOK, Fault
<1>1. ASSUME NEW t \in Turns, NEW text \in Texts, Send(t, text) PROVE TypeOK'
  <2>1. ASSUME NEW u \in Turns
        PROVE  /\ [turn[u] EXCEPT !.alone = FALSE] \in Handlings
               /\ [Fresh EXCEPT !.step = "queued", !.text = text, !.after = lastSeen,
                                !.alone = InFlight = {}] \in Handlings
    <3>1. turn[u] \in Handlings /\ (InFlight = {}) \in BOOLEAN /\ lastSeen \in Answers
      BY DEF TypeOK
    <3> QED
      BY <3>1, Types DEF Handlings, Steps
  <2>2. turn' \in [Turns -> Handlings]
    BY <1>1, <2>1 DEF Send, TypeOK
  <2> QED
    BY <1>1, <2>2 DEF Send, TypeOK
<1>2. ASSUME NEW t \in Turns, Throttle(t) \/ Answer(t) \/ RetryCommand(t) \/ Redeliver(t)
      PROVE  TypeOK'
  <2>1. /\ Closed(turn[t], "answered") \in Handlings /\ Closed(turn[t], "dead") \in Handlings
        /\ Again(turn[t]) \in Handlings
    BY ClosedType DEF TypeOK, Steps
  <2>2. [Again(turn[t]) EXCEPT !.tries = @ + 1] \in Handlings
    BY <2>1 DEF Handlings
  <2>3. [by |-> t, proposal |-> Proposal(t)] \in Answers
        /\ [by |-> t, proposal |-> NoProposal] \in Answers
    BY ProposalType, Types DEF Answers
  <2>4. CASE Throttle(t)
    BY <1>f, <2>1, <2>4 DEF Throttle, TypeOK
  <2>5. CASE Answer(t)
    BY <2>1, <2>3, <2>5 DEF Answer, TypeOK
  <2>6. CASE RetryCommand(t)
    BY <1>f, <2>1, <2>2, <2>3, <2>6 DEF RetryCommand, TypeOK
  <2>7. CASE Redeliver(t)
    BY <1>f, <2>1, <2>7 DEF Redeliver, TypeOK
  <2> QED
    BY <1>2, <2>4, <2>5, <2>6, <2>7
<1>3. ASSUME NEW t \in Turns, RouteInput(t) PROVE TypeOK'
  <2>1. Resumed(saved) \in Conversations
    BY ConversationTypes, Types DEF TypeOK
  <2>2. Intent(Resumed(saved), turn[t].text) \in Outcomes
    BY DEF Intent, Outcomes, Decisions
  <2>3. turn' \in [Turns -> Handlings]
    <3>1. now \in Nat /\ turn[t] \in Handlings
      BY DEF TypeOK
    <3>2. ASSUME NEW step \in {"routed", "decided"}
          PROVE  [turn[t] EXCEPT !.step = step, !.conv = Resumed(saved),
                    !.outcome = Intent(Resumed(saved), turn[t].text), !.loadedAt = now,
                    !.stateless = FALSE] \in Handlings
      BY <2>1, <2>2, <3>1 DEF Handlings, Steps
    <3> QED
      BY <1>3, <3>2 DEF RouteInput, TypeOK
  <2> QED
    BY <1>3, <2>1, <2>3 DEF RouteInput, TypeOK
<1>4. ASSUME NEW t \in Turns, RunStateless(t) PROVE TypeOK'
  <2>1. turn' \in [Turns -> Handlings]
    <3>1. turn[t] \in Handlings
      BY DEF TypeOK
    <3>2. [turn[t] EXCEPT !.step = "routed", !.conv = Idle, !.outcome = "none",
                          !.stateless = TRUE] \in Handlings
      BY <3>1, Types DEF Handlings, Steps, Outcomes
    <3> QED
      BY <1>4, <3>2 DEF RunStateless, TypeOK
  <2> QED
    BY <1>f, <1>4, <2>1 DEF RunStateless, TypeOK
<1>5. ASSUME NEW t \in Turns, NEW o \in Decisions, Decide(t, o) PROVE TypeOK'
  <2>1. turn' \in [Turns -> Handlings]
    <3>1. turn[t] \in Handlings /\ turn[t].made \in Nat
      BY DEF TypeOK, Handlings
    <3>2. ASSUME NEW n \in Nat
          PROVE  [turn[t] EXCEPT !.step = "decided", !.outcome = o, !.made = n] \in Handlings
      BY <3>1 DEF Handlings, Steps, Outcomes
    <3>3. (IF o = "confirm" THEN turn[t].made + 1 ELSE turn[t].made) \in Nat
      BY <3>1
    <3> QED
      BY <1>5, <3>2, <3>3 DEF Decide, TypeOK
  <2>2. turn[t].conv \in Conversations
    BY DEF TypeOK, Handlings
  <2> QED
    BY <1>5, <2>1, <2>2 DEF Decide, TypeOK
<1>6. ASSUME NEW t \in Turns, Conclude(t) PROVE TypeOK'
  <2>1. turn[t] \in Handlings /\ turn[t].conv \in Conversations
    BY DEF TypeOK, Handlings
  <2>2. saved' \in Conversations
    BY <1>6, <2>1, ConversationTypes, ProposalType DEF Conclude, TypeOK
  <2>3. turn' \in [Turns -> Handlings]
    <3>1. [turn[t] EXCEPT !.step = "result", !.conv = Idle,
                          !.confirmed = @ \/ turn[t].outcome = "confirmed"] \in Handlings
      BY <2>1, Types DEF Handlings, Steps
    <3> QED
      BY <1>6, <3>1 DEF Conclude, TypeOK
  <2>4. <<turn[t].conv.proposal, t>> \in Proposals \X Turns
    BY <2>1 DEF Conversations
  <2>5. handed' \in Seq(Proposals \X Turns) /\ denied' \in Seq(Proposals \X Turns)
    BY <1>6, <2>4, AppendProperties DEF Conclude, TypeOK
  <2> QED
    BY <1>6, <2>2, <2>3, <2>5 DEF Conclude, TypeOK
<1>7. CASE Tick
  BY <1>7 DEF Tick, TypeOK
<1>8. CASE UNCHANGED vars
  BY <1>8 DEF vars, TypeOK
<1> QED
  BY <1>1, <1>2, <1>3, <1>4, <1>5, <1>6, <1>7, <1>8 DEF Next

\* The checkpoint, the handlings and what they handed over keep their types, for any
\* number of messages (Conversation, AgentGraphNodes).
THEOREM TypeCorrect == Spec => []TypeOK
  BY TypeInit, TypeStep, PTL DEF Spec

-----------------------------------------------------------------------------
(* What each action does to the handling of its message; it leaves the     *)
(* others alone, but a new message takes the loneliness of those in flight.*)
Others(t) == \A u \in Turns \ {t} : turn'[u] = turn[u]

LEMMA Fields ==
    ASSUME NEW r \in Handlings
    PROVE  /\ r.conv \in Conversations /\ r.conv.proposal \in Proposals
           /\ r.made \in Nat /\ r.again \in BOOLEAN /\ r.stateless \in BOOLEAN
           /\ r.alone \in BOOLEAN /\ r.after \in Answers /\ r.step \in Steps
           /\ r.outcome \in Outcomes
  BY DEF Handlings, Conversations

LEMMA SendEffect ==
    ASSUME TypeOK, NEW t \in Turns, NEW text \in Texts, Send(t, text)
    PROVE  /\ turn[t].step = "unsent"
           /\ LET r == turn'[t] IN
                /\ r.step = "queued" /\ r.conv = Idle /\ r.outcome = "none" /\ r.made = 0
                /\ r.again = FALSE /\ r.stateless = FALSE /\ r.after = lastSeen
                /\ r.alone <=> \A u \in Turns : ~Flying(u)
           /\ \A u \in Turns \ {t} : LET r == turn'[u] IN
                /\ r.step = turn[u].step /\ r.conv = turn[u].conv
                /\ r.outcome = turn[u].outcome /\ r.made = turn[u].made
                /\ r.again = turn[u].again /\ r.stateless = turn[u].stateless
                /\ r.after = turn[u].after /\ r.loadedAt = turn[u].loadedAt
                /\ r.alone <=> turn[u].alone /\ ~Flying(u)
                /\ ~Flying(u) => r = turn[u]
           /\ UNCHANGED <<now, saved, lastSeen, handed, denied>>
<1>1. turn'[t] = [Fresh EXCEPT !.step = "queued", !.text = text, !.after = lastSeen,
                               !.alone = InFlight = {}]
  BY Zenon DEF Send
<1>2. InFlight = {} <=> \A u \in Turns : ~Flying(u)
  BY DEF InFlight, Flying
<1>3. ASSUME NEW u \in Turns \ {t}
      PROVE  /\ turn'[u] = IF Flying(u) THEN [turn[u] EXCEPT !.alone = FALSE] ELSE turn[u]
             /\ turn[u] \in Handlings
  BY DEF Send, InFlight, Flying, TypeOK
<1>4. ASSUME NEW u \in Turns \ {t}
      PROVE  LET r == turn'[u] IN
                /\ r.step = turn[u].step /\ r.conv = turn[u].conv
                /\ r.outcome = turn[u].outcome /\ r.made = turn[u].made
                /\ r.again = turn[u].again /\ r.stateless = turn[u].stateless
                /\ r.after = turn[u].after /\ r.loadedAt = turn[u].loadedAt
                /\ r.alone <=> turn[u].alone /\ ~Flying(u)
                /\ ~Flying(u) => r = turn[u]
  BY <1>3 DEF Handlings
<1>5. LET r == turn'[t] IN
         /\ r.step = "queued" /\ r.conv = Idle /\ r.outcome = "none" /\ r.made = 0
         /\ r.again = FALSE /\ r.stateless = FALSE /\ r.after = lastSeen
         /\ r.alone <=> \A u \in Turns : ~Flying(u)
  BY <1>1, <1>2, Types DEF Fresh
<1> QED
  BY <1>4, <1>5 DEF Send

LEMMA ClosedFields ==
    ASSUME NEW r \in Handlings, NEW step \in Steps
    PROVE  LET c == Closed(r, step) IN
             /\ c.step = step /\ c.conv = Idle /\ c.outcome = "none" /\ c.made = 0
             /\ c.again = r.again /\ c.stateless = r.stateless /\ c.after = r.after
             /\ c.alone = r.alone
  BY Types DEF Closed, Fresh

LEMMA AgainFields ==
    ASSUME NEW r \in Handlings
    PROVE  LET a == Again(r) IN
             /\ a.step = "queued" /\ a.conv = Idle /\ a.outcome = "none" /\ a.made = r.made
             /\ a.again = TRUE /\ a.stateless = FALSE /\ a.after = r.after
             /\ a.alone = r.alone
  BY DEF Again, Handlings

\* Over: refused, answered or dead-lettered.
Over(t) ==
    LET r == turn'[t] IN
      /\ r.step \in {"answered", "dead"} /\ r.conv = Idle /\ r.outcome = "none" /\ r.made = 0
      /\ r.again = turn[t].again /\ r.stateless = turn[t].stateless
      /\ r.after = turn[t].after /\ r.alone = turn[t].alone

\* Handled again, by a retry or a redelivery.
Restarted(t) ==
    LET r == turn'[t] IN
      /\ r.step = "queued" /\ r.conv = Idle /\ r.outcome = "none" /\ r.made = turn[t].made
      /\ r.again = TRUE /\ r.stateless = FALSE
      /\ r.after = turn[t].after /\ r.alone = turn[t].alone

LEMMA EndEffect ==
    ASSUME TypeOK, NEW t \in Turns,
           Throttle(t) \/ Answer(t) \/ RetryCommand(t) \/ Redeliver(t)
    PROVE  /\ Others(t) /\ UNCHANGED <<now, saved, handed, denied>> /\ Flying(t)
           /\ \/ Over(t) /\ turn[t].step = "queued" /\ UNCHANGED lastSeen
              \/ /\ Over(t) /\ turn[t].step = "result"
                 /\ lastSeen' = [by |-> t, proposal |-> Proposal(t)]
              \/ /\ Over(t) /\ turn[t].step = "result" /\ turn[t].outcome \in Executes
                 /\ lastSeen' = [by |-> t, proposal |-> NoProposal]
              \/ Restarted(t) /\ turn[t].step # "queued" /\ UNCHANGED lastSeen
<1>1. turn[t] \in Handlings
  BY DEF TypeOK
<1>2. ASSUME NEW step \in {"answered", "dead"}, turn'[t] = Closed(turn[t], step) PROVE Over(t)
  BY <1>1, <1>2, ClosedFields DEF Over, Steps
<1>3. CASE Throttle(t)
  BY <1>2, <1>3 DEF Throttle, TypeOK, Others, Flying
<1>4. CASE Answer(t)
  BY <1>2, <1>4 DEF Answer, TypeOK, Others, Flying
<1>5. CASE RetryCommand(t)
  <2>1. CASE turn[t].tries + 1 >= MaxTries
    BY <1>2, <1>5, <2>1 DEF RetryCommand, TypeOK, Others, Flying
  <2>2. CASE ~(turn[t].tries + 1 >= MaxTries)
    <3>1. turn'[t] = [Again(turn[t]) EXCEPT !.tries = @ + 1]
      BY <1>5, <2>2 DEF RetryCommand, TypeOK
    <3>2. Again(turn[t]) \in Handlings
      BY <1>1, ClosedType DEF Steps
    <3>3. \A f \in {"step", "conv", "outcome", "made", "again", "stateless", "after", "alone"} :
             turn'[t][f] = Again(turn[t])[f]
      BY <3>1, <3>2 DEF Handlings
    <3>4. LET a == Again(turn[t]) IN
             /\ a.step = "queued" /\ a.conv = Idle /\ a.outcome = "none"
             /\ a.made = turn[t].made /\ a.again = TRUE /\ a.stateless = FALSE
             /\ a.after = turn[t].after /\ a.alone = turn[t].alone
      BY <1>1, AgainFields
    <3>5. Restarted(t)
      BY <3>3, <3>4 DEF Restarted
    <3> QED
      BY <1>5, <2>2, <3>5 DEF RetryCommand, TypeOK, Others, Flying
  <2> QED
    BY <2>1, <2>2
<1>6. CASE Redeliver(t)
  <2>1. Restarted(t)
    BY <1>1, <1>6, AgainFields DEF Redeliver, Restarted, TypeOK
  <2> QED
    BY <1>6, <2>1 DEF Redeliver, TypeOK, Others, Flying
<1> QED
  BY <1>3, <1>4, <1>5, <1>6

LEMMA RouteEffect ==
    ASSUME TypeOK, NEW t \in Turns, RouteInput(t)
    PROVE  LET c == Resumed(saved)
               i == Intent(c, turn[t].text)
               r == turn'[t]
           IN  /\ Others(t) /\ UNCHANGED <<now, lastSeen, handed, denied>>
               /\ turn[t].step = "queued" /\ saved' = c /\ r.conv = c
               /\ r.outcome = i /\ r.step = (IF i = "none" THEN "routed" ELSE "decided")
               /\ r.loadedAt = now /\ r.stateless = FALSE
               /\ r.made = turn[t].made /\ r.again = turn[t].again
               /\ r.after = turn[t].after /\ r.alone = turn[t].alone
<1>1. turn[t] \in Handlings
  BY DEF TypeOK
<1> QED
  BY <1>1 DEF RouteInput, TypeOK, Handlings, Others

LEMMA StatelessEffect ==
    ASSUME TypeOK, NEW t \in Turns, RunStateless(t)
    PROVE  LET r == turn'[t] IN
             /\ Others(t) /\ UNCHANGED <<now, saved, lastSeen, handed, denied>>
             /\ Flying(t) /\ turn[t].step \in {"queued", "routed", "decided"}
             /\ r.step = "routed" /\ r.conv = Idle /\ r.outcome = "none"
             /\ r.stateless = TRUE /\ r.made = turn[t].made /\ r.again = turn[t].again
             /\ r.after = turn[t].after /\ r.alone = turn[t].alone
<1>1. turn[t] \in Handlings
  BY DEF TypeOK
<1> QED
  BY <1>1 DEF RunStateless, TypeOK, Handlings, Others, Flying

LEMMA DecideEffect ==
    ASSUME TypeOK, NEW t \in Turns, NEW o \in Decisions, Decide(t, o)
    PROVE  LET r == turn'[t] IN
             /\ Others(t) /\ UNCHANGED <<now, lastSeen, handed, denied>>
             /\ turn[t].step = "routed" /\ r.step = "decided" /\ r.outcome = o
             /\ r.made = turn[t].made + IF o = "confirm" THEN 1 ELSE 0
             /\ saved' = (IF turn[t].stateless THEN saved ELSE turn[t].conv)
             /\ r.conv = turn[t].conv /\ r.loadedAt = turn[t].loadedAt
             /\ r.stateless = turn[t].stateless /\ r.again = turn[t].again
             /\ r.after = turn[t].after /\ r.alone = turn[t].alone
<1>1. turn[t] \in Handlings
  BY DEF TypeOK
<1> QED
  BY <1>1 DEF Decide, TypeOK, Handlings, Others

LEMMA ConcludeEffect ==
    ASSUME TypeOK, NEW t \in Turns, Conclude(t)
    PROVE  LET r == turn'[t] IN
             /\ Others(t) /\ UNCHANGED <<now, lastSeen>>
             /\ turn[t].step = "decided" /\ r.step = "result" /\ r.conv = Idle
             /\ r.outcome = turn[t].outcome /\ r.made = turn[t].made
             /\ r.stateless = turn[t].stateless /\ r.again = turn[t].again
             /\ r.after = turn[t].after /\ r.alone = turn[t].alone
<1>1. turn[t] \in Handlings
  BY DEF TypeOK
<1> QED
  BY <1>1 DEF Conclude, TypeOK, Handlings, Others

-----------------------------------------------------------------------------
LEMMA NoTurnIsNone == NoTurn \notin Turns
  BY AgentAssumption

\* What the operations of Conversation do to what is pending.
LEMMA Operations ==
    ASSUME NEW c \in Conversations, NEW p, NEW o
    PROVE  /\ Resumed(c) \in {c, Idle}
           /\ Idle.status = "idle" /\ Idle.proposal = NoProposal
           /\ LET d == AfterOutcome(c, o, p) IN
                IF o = "confirm" THEN d.status = "confirmation" /\ d.proposal = p
                                 ELSE d.status # "confirmation" /\ d.proposal = NoProposal
<1>1. Resumed(c) \in {c, Idle} /\ Idle.status = "idle" /\ Idle.proposal = NoProposal
  BY DEF Resumed, Idle
<1>2. AwaitConfirmation(c, p).status = "confirmation" /\ AwaitConfirmation(c, p).proposal = p
  BY DEF AwaitConfirmation, Conversations
<1>3. AwaitAnswer(c).status = "answer" /\ AwaitAnswer(c).proposal = NoProposal
  BY DEF AwaitAnswer, Conversations
<1> QED
  BY <1>1, <1>2, <1>3 DEF AfterOutcome

LEMMA HandledInit == ASSUME Init PROVE Handled
  BY NoTurnIsNone DEF Init, Handled, Shape, WellFormed, Fresh, Idle, NoProposal

LEMMA HandledStep == ASSUME TypeOK, Handled, [Next]_vars PROVE Handled'
<1>i. WellFormed(Idle) /\ Idle.proposal = NoProposal /\ Idle.status = "idle"
  BY DEF WellFormed, Idle
<1>h. \A t \in Turns : turn[t] \in Handlings /\ turn[t].conv \in Conversations
  BY DEF TypeOK, Handlings
<1>o. ASSUME NEW t \in Turns, Others(t), Shape(turn'[t]), WellFormed(saved') PROVE Handled'
  BY <1>o DEF Handled, Others, WellFormed, Shape
<1>1. ASSUME NEW t \in Turns, NEW text \in Texts, Send(t, text) PROVE Handled'
  <2>1. Shape(turn'[t])
    BY <1>1, <1>i, SendEffect DEF Shape, WellFormed
  <2>2. ASSUME NEW u \in Turns \ {t} PROVE Shape(turn'[u])
    <3>1. turn[u].step = "unsent" => turn'[u] = turn[u]
      BY <1>1, SendEffect DEF Flying
    <3>2. Shape(turn[u])
      BY DEF Handled
    <3>3. CASE turn[u].step = "unsent"
      BY <3>1, <3>2, <3>3
    <3>4. CASE turn[u].step # "unsent"
      BY <1>1, <3>2, <3>4, SendEffect DEF Shape, WellFormed
    <3> QED
      BY <3>3, <3>4
  <2>3. WellFormed(saved')
    BY <1>1, SendEffect DEF Handled
  <2> QED
    BY <2>1, <2>2, <2>3 DEF Handled, Shape, WellFormed
<1>2. ASSUME NEW t \in Turns, Throttle(t) \/ Answer(t) \/ RetryCommand(t) \/ Redeliver(t)
      PROVE  Handled'
  <2>1. Shape(turn'[t])
    BY <1>2, <1>i, EndEffect DEF Shape, WellFormed, Over, Restarted
  <2> QED
    BY <1>2, <1>o, <2>1, EndEffect DEF Handled
<1>3. ASSUME NEW t \in Turns, RouteInput(t) PROVE Handled'
  <2>1. WellFormed(Resumed(saved))
    BY <1>i, Operations DEF TypeOK, Handled
  <2>2. ASSUME Intent(Resumed(saved), turn[t].text) # "none"
        PROVE  Resumed(saved).status = "confirmation"
    BY <2>2 DEF Intent
  <2>3. Shape(turn'[t])
    BY <1>3, <2>1, <2>2, RouteEffect DEF Shape
  <2> QED
    BY <1>3, <1>o, <2>1, <2>3, RouteEffect
<1>4. ASSUME NEW t \in Turns, RunStateless(t) PROVE Handled'
  <2>1. Shape(turn'[t])
    BY <1>4, <1>i, StatelessEffect DEF Shape
  <2> QED
    BY <1>4, <1>o, <2>1, StatelessEffect DEF Handled
<1>5. ASSUME NEW t \in Turns, NEW o \in Decisions, Decide(t, o) PROVE Handled'
  <2>1. Shape(turn'[t])
    BY <1>5, DecideEffect DEF Shape, Handled, Decisions
  <2>2. WellFormed(saved')
    BY <1>5, DecideEffect DEF Shape, Handled
  <2> QED
    BY <1>5, <1>o, <2>1, <2>2, DecideEffect
<1>6. ASSUME NEW t \in Turns, Conclude(t) PROVE Handled'
  <2>1. ASSUME turn[t].outcome = "confirm"
        PROVE  Proposal(t).by \in Turns
    BY <2>1 DEF Proposal
  <2>2. CASE turn[t].stateless
    BY <1>6, <2>2, <1>i, <1>o, ConcludeEffect DEF Conclude, Shape, Handled
  <2>3. CASE ~turn[t].stateless
    <3>1. saved' = AfterOutcome(turn[t].conv, turn[t].outcome, Proposal(t))
      BY <1>6, <2>3 DEF Conclude
    <3>2. WellFormed(saved')
      BY <3>1, <2>1, <1>h, Operations DEF WellFormed
    <3>3. Shape(turn'[t])
      BY <1>6, <1>i, <2>3, ConcludeEffect DEF Shape
    <3> QED
      BY <1>6, <1>o, <3>2, <3>3, ConcludeEffect
  <2> QED
    BY <2>2, <2>3
<1>7. CASE Tick
  BY <1>7 DEF Tick, Handled
<1>8. CASE UNCHANGED vars
  BY <1>8 DEF vars, Handled
<1> QED
  BY <1>1, <1>2, <1>3, <1>4, <1>5, <1>6, <1>7, <1>8 DEF Next

LEMMA ApartStep == ASSUME TypeOK, Apart, [Next]_vars PROVE Apart'
<1>o. ASSUME NEW t \in Turns, Others(t), Flying(t), turn'[t].alone = turn[t].alone PROVE Apart'
  BY <1>o DEF Apart, Others, Flying
<1>1. ASSUME NEW t \in Turns, NEW text \in Texts, Send(t, text) PROVE Apart'
  <2>1. ASSUME NEW u \in Turns \ {t}
        PROVE  /\ turn'[u].step = turn[u].step
               /\ turn'[u].alone => ~Flying(u)
    BY <1>1, SendEffect
  <2>2. turn'[t].alone => \A u \in Turns : ~Flying(u)
    BY <1>1, SendEffect
  <2>3. \A u \in Turns \ {t} : Flying(u)' <=> Flying(u)
    BY <2>1 DEF Flying
  <2> SUFFICES ASSUME NEW u \in Turns, NEW v \in Turns, u # v, Flying(u)', Flying(v)'
               PROVE  ~turn'[u].alone
    BY DEF Apart
  <2>4. CASE u = t
    BY <2>2, <2>3, <2>4
  <2>5. CASE u # t
    BY <2>1, <2>3, <2>5
  <2> QED
    BY <2>4, <2>5
<1>2. ASSUME NEW t \in Turns, Throttle(t) \/ Answer(t) \/ RetryCommand(t) \/ Redeliver(t)
      PROVE  Apart'
  BY <1>2, <1>o, EndEffect DEF Over, Restarted
<1>3. ASSUME NEW t \in Turns, RouteInput(t) PROVE Apart'
  BY <1>3, <1>o, RouteEffect DEF Flying
<1>4. ASSUME NEW t \in Turns, RunStateless(t) PROVE Apart'
  BY <1>4, <1>o, StatelessEffect
<1>5. ASSUME NEW t \in Turns, NEW o \in Decisions, Decide(t, o) PROVE Apart'
  BY <1>5, <1>o, DecideEffect DEF Flying
<1>6. ASSUME NEW t \in Turns, Conclude(t) PROVE Apart'
  BY <1>6, <1>o, ConcludeEffect DEF Flying
<1>7. CASE Tick
  BY <1>7 DEF Tick, Apart, Flying
<1>8. CASE UNCHANGED vars
  BY <1>8 DEF vars, Apart, Flying
<1> QED
  BY <1>1, <1>2, <1>3, <1>4, <1>5, <1>6, <1>7, <1>8 DEF Next

-----------------------------------------------------------------------------
LEMMA EntryTypes == ASSUME TypeOK, NEW e \in Spent PROVE e \in Proposals \X Turns
<1>1. PICK i \in DOMAIN handed \cup DOMAIN denied :
        (i \in DOMAIN handed /\ e = handed[i]) \/ (i \in DOMAIN denied /\ e = denied[i])
  BY DEF Spent, Entries
<1> QED
  BY <1>1, ElementOfSeq, LenProperties DEF TypeOK

LEMMA Appended ==
    ASSUME NEW S, NEW log \in Seq(S), NEW e \in S
    PROVE  Entries(Append(log, e)) = Entries(log) \cup {e}
<1>1. /\ DOMAIN log = 1..Len(log) /\ Len(log) \in Nat
      /\ DOMAIN Append(log, e) = 1..(Len(log) + 1)
  BY AppendProperties, LenProperties
<1>2. ASSUME NEW x \in Entries(Append(log, e)) PROVE x \in Entries(log) \cup {e}
  BY <1>1, <1>2, AppendProperties DEF Entries
<1>3. ASSUME NEW x \in Entries(log) PROVE x \in Entries(Append(log, e))
  BY <1>1, <1>3, AppendProperties DEF Entries
<1>4. e \in Entries(Append(log, e))
  BY <1>1, AppendProperties DEF Entries
<1> QED
  BY <1>2, <1>3, <1>4

LEMMA SpentEffect ==
    ASSUME TypeOK, NEW t \in Turns, Conclude(t)
    PROVE  Spent' = Spent \cup IF turn[t].outcome \in {"confirmed", "denied"}
                                 THEN {<<turn[t].conv.proposal, t>>} ELSE {}
<1> DEFINE e == <<turn[t].conv.proposal, t>>
<1>1. e \in Proposals \X Turns
  BY DEF TypeOK, Handlings, Conversations
<1>2. handed \in Seq(Proposals \X Turns) /\ denied \in Seq(Proposals \X Turns)
  BY DEF TypeOK
<1>3. handed' = (IF turn[t].outcome = "confirmed" THEN Append(handed, e) ELSE handed)
      /\ denied' = (IF turn[t].outcome = "denied" THEN Append(denied, e) ELSE denied)
  BY DEF Conclude
<1>4. Entries(handed') = Entries(handed) \cup IF turn[t].outcome = "confirmed" THEN {e} ELSE {}
  <2> HIDE DEF e
  <2> QED
    BY <1>1, <1>2, <1>3, Appended
<1>5. Entries(denied') = Entries(denied) \cup IF turn[t].outcome = "denied" THEN {e} ELSE {}
  <2> HIDE DEF e
  <2> QED
    BY <1>1, <1>2, <1>3, Appended
<1>6. Spent' = Entries(handed') \cup Entries(denied')
  BY DEF Spent, Entries
<1> QED
  BY <1>4, <1>5, <1>6 DEF Spent

LEMMA SpentSame == ASSUME UNCHANGED <<handed, denied>> PROVE Spent' = Spent
  BY DEF Spent, Entries

LEMMA SentInit == ASSUME Init PROVE Sent
  BY NoTurnIsNone DEF Init, Sent, Spent, Entries, Nothing

LEMMA SentStep == ASSUME TypeOK, Handled, Sent, [Next]_vars PROVE Sent'
<1>e. \A e \in Spent : e \in Proposals \X Turns
  BY EntryTypes
<1>o. ASSUME NEW t \in Turns, Others(t), turn'[t].step # "unsent", UNCHANGED <<lastSeen, handed, denied>>
      PROVE  Sent'
  BY <1>e, <1>o, SpentSame DEF Sent, Others
<1>1. ASSUME NEW t \in Turns, NEW text \in Texts, Send(t, text) PROVE Sent'
  <2>1. \A u \in Turns : turn'[u].step = "unsent" <=> turn[u].step = "unsent" /\ u # t
    BY <1>1, SendEffect
  <2>2. Spent' = Spent /\ lastSeen' = lastSeen
    BY <1>1, SendEffect, SpentSame
  <2> QED
    BY <1>e, <2>1, <2>2 DEF Sent
<1>2. ASSUME NEW t \in Turns, Throttle(t) \/ Answer(t) \/ RetryCommand(t) \/ Redeliver(t)
      PROVE  Sent'
  <2>1. turn'[t].step # "unsent"
    BY <1>2, EndEffect DEF Over, Restarted
  <2>2. \/ lastSeen' = lastSeen
        \/ \E p : lastSeen' = [by |-> t, proposal |-> p]
    BY <1>2, EndEffect
  <2> QED
    BY <1>2, <1>e, <2>1, <2>2, EndEffect, SpentSame DEF Sent, Others
<1>3. ASSUME NEW t \in Turns, RouteInput(t) PROVE Sent'
  BY <1>3, <1>o, RouteEffect
<1>4. ASSUME NEW t \in Turns, RunStateless(t) PROVE Sent'
  BY <1>4, <1>o, StatelessEffect
<1>5. ASSUME NEW t \in Turns, NEW o \in Decisions, Decide(t, o) PROVE Sent'
  BY <1>5, <1>o, DecideEffect
<1>6. ASSUME NEW t \in Turns, Conclude(t) PROVE Sent'
  <2>1. turn[t].outcome \in {"confirmed", "denied"} => turn[t].conv.proposal.by \in Turns
    BY <1>6 DEF Conclude, Handled, Shape, WellFormed
  <2>2. \A e \in Spent' : e \in Spent \/ (e = <<turn[t].conv.proposal, t>>
                                           /\ turn[t].outcome \in {"confirmed", "denied"})
    BY <1>6, SpentEffect
  <2> QED
    BY <1>6, <1>e, <2>1, <2>2, ConcludeEffect DEF Sent, Others
<1>7. CASE Tick
  BY <1>7, SpentSame DEF Tick, Sent
<1>8. CASE UNCHANGED vars
  BY <1>8, SpentSame DEF vars, Sent
<1> QED
  BY <1>1, <1>2, <1>3, <1>4, <1>5, <1>6, <1>7, <1>8 DEF Next

-----------------------------------------------------------------------------
\* A proposal is pending because it was, or because its message has just made it.
Proposes(t, p) == turn[t].outcome = "confirm" /\ p = Proposal(t)

LEMMA PendingStep ==
    ASSUME TypeOK, Handled, [Next]_vars, NEW p, Pending(p)'
    PROVE  \/ Pending(p) \/ p = NoProposal
           \/ \E t \in Turns : Conclude(t) /\ Proposes(t, p)
<1>i. Idle.proposal = NoProposal
  BY DEF Idle
<1>h. \A t \in Turns : turn[t] \in Handlings /\ turn[t].conv \in Conversations
  BY DEF TypeOK, Handlings
<1>o. ASSUME NEW t \in Turns, Others(t),
             \/ turn'[t].conv.proposal = NoProposal
             \/ turn'[t].conv.proposal = turn[t].conv.proposal
             \/ turn'[t].conv.proposal = saved.proposal,
             \/ saved' = saved
             \/ saved'.proposal = NoProposal
             \/ saved'.proposal = turn[t].conv.proposal
      PROVE  Pending(p) \/ p = NoProposal
  BY <1>o DEF Pending, Others
<1>1. ASSUME NEW t \in Turns, NEW text \in Texts, Send(t, text)
      PROVE  Pending(p) \/ p = NoProposal
  BY <1>1, <1>i, SendEffect DEF Pending
<1>2. ASSUME NEW t \in Turns, Throttle(t) \/ Answer(t) \/ RetryCommand(t) \/ Redeliver(t)
      PROVE  Pending(p) \/ p = NoProposal
  BY <1>2, <1>i, <1>o, EndEffect DEF Over, Restarted
<1>3. ASSUME NEW t \in Turns, RouteInput(t) PROVE Pending(p) \/ p = NoProposal
  <2>1. Resumed(saved) \in {saved, Idle}
    BY Operations DEF TypeOK
  <2> QED
    BY <1>3, <1>i, <1>o, <2>1, RouteEffect
<1>4. ASSUME NEW t \in Turns, RunStateless(t) PROVE Pending(p) \/ p = NoProposal
  BY <1>4, <1>i, <1>o, StatelessEffect
<1>5. ASSUME NEW t \in Turns, NEW o \in Decisions, Decide(t, o)
      PROVE  Pending(p) \/ p = NoProposal
  BY <1>5, <1>o, DecideEffect
<1>6. ASSUME NEW t \in Turns, Conclude(t)
      PROVE  Pending(p) \/ p = NoProposal \/ Proposes(t, p)
  <2>1. \/ saved' = saved \/ saved'.proposal = NoProposal
        \/ turn[t].outcome = "confirm" /\ saved'.proposal = Proposal(t)
    BY <1>6, <1>h, Operations DEF Conclude
  <2>2. turn'[t].conv.proposal = NoProposal
    BY <1>6, <1>i, ConcludeEffect
  <2> QED
    BY <1>6, <2>1, <2>2, ConcludeEffect DEF Pending, Others, Proposes
<1>7. CASE Tick
  BY <1>7 DEF Tick, Pending
<1>8. CASE UNCHANGED vars
  BY <1>8 DEF vars, Pending
<1> QED
  BY <1>1, <1>2, <1>3, <1>4, <1>5, <1>6, <1>7, <1>8 DEF Next

LEMMA KnownStep ==
    ASSUME TypeOK, Handled, [Next]_vars, NEW p, Known(p)'
    PROVE  \/ Known(p) \/ p = NoProposal
           \/ \E t \in Turns : Conclude(t) /\ Proposes(t, p)
<1>1. CASE Pending(p)'
  BY <1>1, PendingStep DEF Known
<1>2. ASSUME NEW e \in Spent', e[1] = p PROVE Known(p)
  <2>1. CASE e \in Spent
    BY <1>2, <2>1 DEF Known
  <2>2. ASSUME NEW t \in Turns, Conclude(t), e = <<turn[t].conv.proposal, t>> PROVE Known(p)
    BY <1>2, <2>2 DEF Known, Pending
  <2>3. e \in Spent \/ \E t \in Turns : Conclude(t) /\ e = <<turn[t].conv.proposal, t>>
    <3>1. (\E t \in Turns : Conclude(t)) \/ UNCHANGED <<handed, denied>>
      BY DEF Next, Send, Throttle, RouteInput, RunStateless, Decide, Answer, RetryCommand,
             Redeliver, Tick, vars
    <3>2. CASE UNCHANGED <<handed, denied>>
      BY <3>2, SpentSame
    <3>3. ASSUME NEW t \in Turns, Conclude(t) PROVE e \in Spent \/ e = <<turn[t].conv.proposal, t>>
      BY <3>3, SpentEffect
    <3> QED
      BY <3>1, <3>2, <3>3
  <2> QED
    BY <2>1, <2>2, <2>3
<1> QED
  BY <1>1, <1>2 DEF Known

\* No step makes a proposal new again.
LEMMA OldStep ==
    ASSUME TypeOK, Handled, NEW p \in Proposals, Old(p), [Next]_vars
    PROVE  Old(p)'
<1>0. CASE p.by \notin Turns
  BY <1>0 DEF Old
<1>n. p.n \in Nat /\ \A t \in Turns : turn[t].made \in Nat /\ turn'[t].made \in Nat
  BY TypeStep DEF Proposals, TypeOK, Handlings
<1>s. ASSUME p.by \in Turns, turn'[p.by] = turn[p.by] PROVE Old(p)'
  BY <1>s DEF Old, Flying
<1>1. ASSUME p.by \in Turns, NEW t \in Turns, NEW text \in Texts, Send(t, text) PROVE Old(p)'
  BY <1>1, SendEffect DEF Old, Flying
<1>2. ASSUME p.by \in Turns, NEW t \in Turns,
             Throttle(t) \/ Answer(t) \/ RetryCommand(t) \/ Redeliver(t)
      PROVE  Old(p)'
  BY <1>2, <1>s, EndEffect DEF Old, Flying, Others, Over, Restarted
<1>3. ASSUME p.by \in Turns, NEW t \in Turns, RouteInput(t) PROVE Old(p)'
  <2>1. Intent(Resumed(saved), turn[t].text) # "confirm"
    BY DEF Intent
  <2> QED
    BY <1>3, <1>s, <2>1, RouteEffect DEF Old, Flying, Others
<1>4. ASSUME p.by \in Turns, NEW t \in Turns, RunStateless(t) PROVE Old(p)'
  BY <1>4, <1>s, StatelessEffect DEF Old, Flying, Others
<1>5. ASSUME p.by \in Turns, NEW t \in Turns, NEW o \in Decisions, Decide(t, o) PROVE Old(p)'
  BY <1>5, <1>n, <1>s, DecideEffect DEF Old, Flying, Others
<1>6. ASSUME p.by \in Turns, NEW t \in Turns, Conclude(t) PROVE Old(p)'
  BY <1>6, <1>s, ConcludeEffect DEF Old, Flying, Others
<1>7. CASE p.by \in Turns /\ (Tick \/ UNCHANGED vars)
  BY <1>7, <1>s DEF Tick, vars
<1> QED
  BY <1>0, <1>1, <1>2, <1>3, <1>4, <1>5, <1>6, <1>7 DEF Next

LEMMA NumberedInit == ASSUME Init PROVE Numbered
  BY NoTurnIsNone DEF Init, Numbered, Known, Pending, Old, Spent, Entries, Idle, Fresh, NoProposal

LEMMA NumberedStep == ASSUME TypeOK, Handled, Numbered, [Next]_vars PROVE Numbered'
<1> SUFFICES ASSUME NEW p \in Proposals, Known(p)' PROVE Old(p)'
  BY DEF Numbered
<1>1. CASE Known(p)
  BY <1>1, OldStep DEF Numbered
<1>2. CASE p = NoProposal
  BY <1>2, NoTurnIsNone DEF Old, NoProposal
<1>3. ASSUME NEW t \in Turns, Conclude(t), Proposes(t, p) PROVE Old(p)'
  <2>1. p.by = t /\ p.n = turn[t].made /\ turn[t].made \in Nat
    BY <1>3 DEF Proposes, Proposal, TypeOK, Handlings
  <2> QED
    BY <1>3, <2>1, ConcludeEffect DEF Old, Flying
<1> QED
  BY <1>1, <1>2, <1>3, KnownStep

-----------------------------------------------------------------------------
\* Once sent, a message keeps what it was written after, and once disturbed it stays so.
Keeps(u) == /\ turn'[u].after = turn[u].after
            /\ turn'[u].alone => turn[u].alone
            /\ ~Undisturbed(u) => ~Undisturbed(u)'

LEMMA Kept ==
    ASSUME TypeOK, Handled, [Next]_vars, NEW u \in Turns, turn[u].step # "unsent"
    PROVE  Keeps(u)
<1> USE DEF Keeps, Undisturbed
<1>1. ASSUME NEW t \in Turns, NEW text \in Texts, Send(t, text)
      PROVE  Keeps(u)
  BY <1>1, SendEffect
<1>2. ASSUME turn'[u] = turn[u]
      PROVE  Keeps(u)
  BY <1>2
<1>3. CASE Throttle(u) \/ Answer(u) \/ RetryCommand(u) \/ Redeliver(u)
  BY <1>3, EndEffect DEF Over, Restarted
<1>4. CASE RouteInput(u)
  BY <1>4, RouteEffect DEF Handled, Shape
<1>5. CASE RunStateless(u)
  BY <1>5, StatelessEffect
<1>6. ASSUME NEW o \in Decisions, Decide(u, o)
      PROVE  Keeps(u)
  BY <1>6, DecideEffect
<1>7. CASE Conclude(u)
  BY <1>7, ConcludeEffect
<1>8. ASSUME NEW t \in Turns \ {u},
             \/ Throttle(t) \/ Answer(t) \/ RetryCommand(t) \/ Redeliver(t)
             \/ RouteInput(t) \/ RunStateless(t) \/ Conclude(t)
             \/ \E o \in Decisions : Decide(t, o)
      PROVE  turn'[u] = turn[u]
  <2>1. Others(t)
    <3>1. CASE Throttle(t) \/ Answer(t) \/ RetryCommand(t) \/ Redeliver(t)
      BY <3>1, EndEffect
    <3>2. CASE RouteInput(t)
      BY <3>2, RouteEffect
    <3>3. CASE RunStateless(t)
      BY <3>3, StatelessEffect
    <3>4. CASE Conclude(t)
      BY <3>4, ConcludeEffect
    <3>5. ASSUME NEW o \in Decisions, Decide(t, o) PROVE Others(t)
      BY <3>5, DecideEffect
    <3> QED
      BY <1>8, <3>1, <3>2, <3>3, <3>4, <3>5
  <2> QED
    BY <2>1 DEF Others
<1>9. ASSUME NEW t \in Turns, turn'[u] # turn[u],
              \/ Throttle(t) \/ Answer(t) \/ RetryCommand(t) \/ Redeliver(t)
              \/ RouteInput(t) \/ RunStateless(t) \/ Conclude(t)
              \/ \E o \in Decisions : Decide(t, o)
       PROVE  Keeps(u)
  <2>1. t = u
    BY <1>8, <1>9
  <2> QED
    BY <1>3, <1>4, <1>5, <1>6, <1>7, <1>9, <2>1
<1> HIDE DEF Keeps, Undisturbed
<1>10. CASE turn'[u] = turn[u]
  BY <1>2, <1>10
<1>11. CASE turn'[u] # turn[u]
  <2>1. ~Tick /\ ~(UNCHANGED vars)
    BY <1>11 DEF Tick, vars
  <2>2. PICK t \in Turns :
          \/ \E text \in Texts : Send(t, text)
          \/ Throttle(t) \/ Answer(t) \/ RetryCommand(t) \/ Redeliver(t)
          \/ RouteInput(t) \/ RunStateless(t) \/ Conclude(t)
          \/ \E o \in Decisions : Decide(t, o)
    BY <2>1 DEF Next
  <2> QED
    BY <1>1, <1>9, <1>11, <2>2
<1> QED
  BY <1>10, <1>11

LEMMA ForgottenInit == ASSUME Init PROVE Forgotten
  BY DEF Init, Forgotten, Spent, Entries

LEMMA ForgottenStep ==
    ASSUME TypeOK, Handled, Apart, Sent, Numbered, Forgotten, [Next]_vars
    PROVE  Forgotten'
<1>n. NoProposal.by \notin Turns
  BY NoTurnIsNone DEF NoProposal
<1>1. ASSUME NEW e \in Spent, turn'[e[2]].alone PROVE ~Pending(e[1])'
  <2>1. e[1] \in Proposals /\ e[2] \in Turns /\ e[1].by \in Turns /\ turn[e[2]].step # "unsent"
    BY EntryTypes DEF Sent
  <2>2. ~Pending(e[1])
    BY <1>1, <2>1, Kept DEF Forgotten, Keeps
  <2>3. ASSUME NEW t \in Turns, Conclude(t), Proposes(t, e[1]) PROVE FALSE
    <3>1. e[1].by = t /\ e[1].n = turn[t].made /\ turn[t].made \in Nat
          /\ turn[t].step = "decided" /\ turn[t].outcome = "confirm"
      BY <2>3, ConcludeEffect DEF Proposes, Proposal, TypeOK, Handlings
    <3>2. Old(e[1])
      BY <2>1 DEF Numbered, Known
    <3> QED
      BY <3>1, <3>2 DEF Old
  <2> QED
    BY <1>n, <2>1, <2>2, <2>3, PendingStep
<1>2. ASSUME NEW t \in Turns, Conclude(t), turn[t].outcome \in {"confirmed", "denied"},
             turn'[t].alone, NEW p, p = turn[t].conv.proposal
      PROVE  ~Pending(p)'
  <2>1. /\ turn[t].conv.status = "confirmation" /\ turn[t].conv.proposal.by \in Turns
        /\ ~turn[t].stateless /\ turn[t].step = "decided" /\ turn[t].alone
    BY <1>2, <1>n, ConcludeEffect DEF Handled, Shape, WellFormed
  <2>2. saved'.proposal = NoProposal
    BY <1>2, <2>1, Operations DEF Conclude, TypeOK, Handlings
  <2>3. ASSUME NEW u \in Turns PROVE turn'[u].conv.proposal = NoProposal
    <3>1. CASE u = t
      BY <1>2, <3>1, ConcludeEffect DEF Idle
    <3>2. CASE u # t
      <4>1. ~Flying(u)
        BY <2>1, <3>2 DEF Apart, Flying
      <4> QED
        BY <1>2, <3>2, <4>1, ConcludeEffect DEF Others, Flying, Handled, Shape
    <3> QED
      BY <3>1, <3>2
  <2> QED
    BY <1>n, <1>2, <2>1, <2>2, <2>3 DEF Pending
<1>3. ASSUME NEW e \in Spent' \ Spent
      PROVE  \E t \in Turns : /\ Conclude(t) /\ turn[t].outcome \in {"confirmed", "denied"}
                              /\ e = <<turn[t].conv.proposal, t>>
  <2>1. (\E t \in Turns : Conclude(t)) \/ UNCHANGED <<handed, denied>>
    BY DEF Next, Send, Throttle, RouteInput, RunStateless, Decide, Answer, RetryCommand,
           Redeliver, Tick, vars
  <2> QED
    BY <1>3, <2>1, SpentSame, SpentEffect
<1> QED
  <2> SUFFICES ASSUME NEW e \in Spent', turn'[e[2]].alone PROVE ~Pending(e[1])'
    BY DEF Forgotten
  <2>1. CASE e \in Spent
    BY <1>1, <2>1
  <2>2. CASE e \notin Spent
    <3>1. PICK t \in Turns : /\ Conclude(t) /\ turn[t].outcome \in {"confirmed", "denied"}
                             /\ e = <<turn[t].conv.proposal, t>>
      BY <1>3, <2>2
    <3> QED
      BY <1>2, <3>1
  <2> QED
    BY <2>1, <2>2

-----------------------------------------------------------------------------
LEMMA LookedInit == ASSUME Init PROVE Looked
  BY DEF Init, Looked, Seen, Fresh, Idle, Flying

\* While one message is alone in flight, nothing else is pending in a run.
LEMMA AloneInFlight ==
    ASSUME Handled, Apart, NEW t \in Turns, Flying(t), turn[t].alone
    PROVE  \A u \in Turns \ {t} : ~Flying(u) /\ turn[u].conv.status # "confirmation"
<1>1. \A u \in Turns \ {t} : ~Flying(u)
  BY DEF Apart
<1> QED
  BY <1>1, NoTurnIsNone DEF Handled, Shape, WellFormed, Flying, NoProposal

\* The answer of an undisturbed message accounts for whatever is pending then.
LEMMA AnswerSeen ==
    ASSUME TypeOK, Handled, Apart, Sent, Looked, NEW t \in Turns,
           Throttle(t) \/ Answer(t) \/ RetryCommand(t) \/ Redeliver(t)
    PROVE  Seen(saved)' /\ \A u \in Turns : Seen(turn[u].conv)'
<1>f. Flying(t) /\ Others(t) /\ UNCHANGED saved /\ turn'[t].conv = Idle
  BY EndEffect DEF Over, Restarted
<1>w. WellFormed(saved) /\ \A u \in Turns : WellFormed(turn[u].conv)
  BY DEF Handled, Shape
<1>i. Seen(Idle)'
  BY DEF Seen, Idle
<1>k. \A u \in Turns : Disturbed(u) => Disturbed(u)'
  <2>1. \A u \in Turns : turn[u].step = "unsent" => Undisturbed(u)
    BY DEF Handled, Shape, Fresh, Undisturbed
  <2>2. [Next]_vars
    BY DEF Next
  <2> QED
    BY <2>1, <2>2, Kept DEF Disturbed, Keeps
<1>1. CASE UNCHANGED lastSeen /\ Restarted(t)
  <2>1. ASSUME NEW c, WellFormed(c), Seen(c) PROVE Seen(c)'
    <3>1. Disturbed(t)'
      BY <1>1 DEF Restarted, Disturbed, Undisturbed
    <3> QED
      BY <1>1, <1>f, <1>k, <2>1, <3>1 DEF Seen, WellFormed, Others, Disturbed
  <2> QED
    BY <1>f, <1>i, <1>w, <2>1 DEF Looked, Others
<1>2. CASE UNCHANGED lastSeen /\ Over(t) /\ turn[t].step = "queued"
  <2>1. ASSUME NEW c, WellFormed(c), Seen(c) PROVE Seen(c)'
    BY <1>2, <1>f, <1>k, <2>1 DEF Seen, WellFormed, Others, Disturbed
  <2> QED
    BY <1>f, <1>i, <1>w, <2>1 DEF Looked, Others
<1>3. ASSUME Over(t), turn[t].step = "result", lastSeen'.by = t,
             lastSeen'.proposal = Proposal(t)
      PROVE  Seen(saved)' /\ \A u \in Turns : Seen(turn[u].conv)'
  <2>1. CASE Undisturbed(t)
    <3>1. saved.status = "confirmation" => saved.proposal = lastSeen'.proposal
      BY <1>3, <2>1 DEF Looked
    <3>2. \A u \in Turns \ {t} : turn'[u].conv.status # "confirmation"
      BY <1>f, <2>1, AloneInFlight DEF Undisturbed, Others
    <3> QED
      BY <1>f, <1>i, <3>1, <3>2 DEF Seen
  <2>2. CASE ~Undisturbed(t)
    <3>1. Disturbed(t)'
      BY <1>k, <2>2 DEF Disturbed
    <3> QED
      BY <1>3, <3>1 DEF Seen
  <2> QED
    BY <2>1, <2>2
<1>4. ASSUME turn[t].outcome \in Executes PROVE Proposal(t) = NoProposal
  BY <1>4 DEF Proposal, Executes
<1> QED
  BY <1>1, <1>2, <1>3, <1>4, EndEffect

LEMMA LookedStep ==
    ASSUME TypeOK, Handled, Apart, Sent, Looked, [Next]_vars
    PROVE  Looked'
<1>w. WellFormed(saved) /\ \A u \in Turns : WellFormed(turn[u].conv)
  BY DEF Handled, Shape
<1>i. Seen(Idle)' /\ Idle.status = "idle"
  BY DEF Seen, Idle
<1>k. \A u \in Turns : Disturbed(u) => Disturbed(u)'
  <2>1. \A u \in Turns : turn[u].step = "unsent" => Undisturbed(u)
    BY DEF Handled, Shape, Fresh, Undisturbed
  <2> QED
    BY <2>1, Kept DEF Disturbed, Keeps
<1>o. ASSUME NEW t \in Turns, Others(t), Flying(t), turn[t].step # "result", UNCHANGED lastSeen,
             turn'[t].after = turn[t].after, turn'[t].alone = turn[t].alone,
             Seen(saved)', Seen(turn[t].conv)',
             turn'[t].step = "result" /\ Undisturbed(t)' /\ saved'.status = "confirmation" =>
               saved'.proposal = Proposal(t)'
      PROVE  Looked'
  <2>1. ASSUME NEW u \in Turns \ {t} PROVE Seen(turn[u].conv)'
    BY <1>k, <1>o, <1>w, <2>1 DEF Looked, Seen, WellFormed, Disturbed, Others
  <2>2. ASSUME NEW u \in Turns \ {t}, turn'[u].step = "result" PROVE ~Undisturbed(u)'
    BY <1>o, <2>2 DEF Apart, Flying, Undisturbed, Others
  <2>3. ASSUME NEW u \in Turns, Flying(u)', turn'[u].alone PROVE turn'[u].after = lastSeen'
    BY <1>o, <2>3 DEF Looked, Flying, Others
  <2> QED
    BY <1>o, <2>1, <2>2, <2>3 DEF Looked
<1>c. ASSUME NEW t \in Turns, Others(t), turn[t].step # "result", UNCHANGED lastSeen,
             NEW c, WellFormed(c), Seen(c)
      PROVE  Seen(c)'
  BY <1>c, <1>k DEF Seen, WellFormed, Others, Disturbed
<1>1. ASSUME NEW t \in Turns, NEW text \in Texts, Send(t, text) PROVE Looked'
  <2>1. ASSUME NEW c, WellFormed(c), Seen(c) PROVE Seen(c)'
    <3>1. \A u \in Turns : turn[u].step = "result" =>
            turn'[u].step = "result" /\ turn'[u].outcome = turn[u].outcome
      BY <1>1, SendEffect
    <3>2. lastSeen' = lastSeen
      BY <1>1, SendEffect
    <3> QED
      BY <1>k, <2>1, <3>1, <3>2 DEF Seen, WellFormed, Disturbed
  <2>2. Seen(saved)' /\ \A u \in Turns : Seen(turn[u].conv)'
    BY <1>1, <1>i, <1>w, <2>1, SendEffect DEF Looked
  <2>3. \A u \in Turns : Flying(u)' /\ turn'[u].alone => turn'[u].after = lastSeen'
    BY <1>1, SendEffect DEF Flying
  <2>4. \A u \in Turns : turn'[u].step = "result" => ~turn'[u].alone
    BY <1>1, SendEffect DEF Flying
  <2> QED
    BY <2>2, <2>3, <2>4 DEF Looked, Undisturbed
<1>2. ASSUME NEW t \in Turns, Throttle(t) \/ Answer(t) \/ RetryCommand(t) \/ Redeliver(t)
      PROVE  Looked'
  <2>1. Seen(saved)' /\ \A u \in Turns : Seen(turn[u].conv)'
    BY <1>2, AnswerSeen
  <2>2. Flying(t) /\ Others(t) /\ UNCHANGED saved
    BY <1>2, EndEffect
  <2>3. ASSUME NEW u \in Turns, Flying(u)', turn'[u].alone PROVE turn'[u].after = lastSeen'
    <3>1. CASE u # t
      BY <2>2, <2>3, <3>1 DEF Apart, Others, Flying
    <3>2. CASE u = t
      BY <1>2, <2>3, <3>2, EndEffect DEF Looked, Flying, Over, Restarted
    <3> QED
      BY <3>1, <3>2
  <2>4. ASSUME NEW u \in Turns, turn'[u].step = "result", Undisturbed(u)' PROVE FALSE
    <3>1. turn'[t].step # "result"
      BY <1>2, EndEffect DEF Over, Restarted
    <3> QED
      BY <2>2, <2>4, <3>1 DEF Apart, Others, Flying, Undisturbed
  <2> QED
    BY <2>1, <2>3, <2>4 DEF Looked
<1>3. ASSUME NEW t \in Turns, RouteInput(t) PROVE Looked'
  <2>1. Resumed(saved) \in {saved, Idle}
    BY Operations DEF TypeOK
  <2>2. Seen(saved)' /\ Seen(turn[t].conv)'
    BY <1>3, <1>c, <1>i, <1>w, <2>1, RouteEffect DEF Looked
  <2> QED
    BY <1>3, <1>o, <2>2, RouteEffect DEF Flying
<1>4. ASSUME NEW t \in Turns, RunStateless(t) PROVE Looked'
  <2>1. Seen(saved)' /\ Seen(turn[t].conv)'
    BY <1>4, <1>c, <1>i, <1>w, StatelessEffect DEF Looked
  <2> QED
    BY <1>4, <1>o, <2>1, StatelessEffect
<1>5. ASSUME NEW t \in Turns, NEW o \in Decisions, Decide(t, o) PROVE Looked'
  <2>1. Seen(saved)' /\ Seen(turn[t].conv)'
    BY <1>5, <1>c, <1>w, DecideEffect DEF Looked
  <2> QED
    BY <1>5, <1>o, <2>1, DecideEffect DEF Flying
<1>6. ASSUME NEW t \in Turns, Conclude(t) PROVE Looked'
  <2>h. turn[t].conv \in Conversations
    BY DEF TypeOK, Handlings
  <2>p. Proposal(t)' = Proposal(t)
    BY <1>6, ConcludeEffect DEF Proposal
  <2>1. CASE turn[t].stateless
    <3>1. saved' = saved /\ ~Undisturbed(t)'
      <4>1. saved' = saved
        BY <1>6, <2>1 DEF Conclude
      <4>2. turn'[t].stateless = turn[t].stateless
        BY <1>6, ConcludeEffect
      <4> QED
        BY <2>1, <4>1, <4>2 DEF Undisturbed
    <3>2. Seen(saved)' /\ Seen(turn[t].conv)'
      BY <1>6, <1>c, <1>i, <1>w, <3>1, ConcludeEffect DEF Looked
    <3> QED
      BY <1>6, <1>o, <3>1, <3>2, ConcludeEffect DEF Flying
  <2>2. CASE ~turn[t].stateless
    <3>1. saved' = AfterOutcome(turn[t].conv, turn[t].outcome, Proposal(t))
      BY <1>6, <2>2 DEF Conclude
    <3>2. saved'.status = "confirmation" =>
            turn[t].outcome = "confirm" /\ saved'.proposal = Proposal(t)
      BY <2>h, <3>1, Operations
    <3>3. Seen(saved)'
      <4>1. saved'.status = "confirmation" => saved'.proposal.by = t
        BY <3>2 DEF Proposal
      <4> QED
        BY <1>6, <3>2, <4>1, ConcludeEffect DEF Seen
    <3>4. Seen(turn[t].conv)'
      BY <1>6, <1>i, ConcludeEffect
    <3> QED
      BY <1>6, <1>o, <2>p, <3>2, <3>3, <3>4, ConcludeEffect DEF Flying
  <2> QED
    BY <2>1, <2>2
<1>7. CASE Tick \/ UNCHANGED vars
  BY <1>7 DEF Tick, vars, Looked, Seen, Disturbed, Undisturbed, Flying, Proposal
<1> QED
  BY <1>1, <1>2, <1>3, <1>4, <1>5, <1>6, <1>7 DEF Next

-----------------------------------------------------------------------------
LEMMA InvInit == ASSUME Init PROVE Inv
<1>1. Apart
  BY DEF Init, Apart, Flying, Fresh
<1> QED
  BY <1>1, TypeInit, HandledInit, SentInit, NumberedInit, ForgottenInit, LookedInit DEF Inv

LEMMA InvStep == ASSUME Inv, [Next]_vars PROVE Inv'
  BY TypeStep, HandledStep, ApartStep, SentStep, NumberedStep, ForgottenStep, LookedStep DEF Inv

LEMMA Invariant == Spec => []Inv
  BY InvInit, InvStep, PTL DEF Spec

\* Only the end of a run adds to what was handed over and what was denied.
LEMMA LogStep ==
    ASSUME TypeOK, [Next]_vars
    PROVE  \/ UNCHANGED <<handed, denied>>
           \/ \E t \in Turns :
                /\ Conclude(t) /\ turn[t].outcome = "confirmed" /\ UNCHANGED denied
                /\ handed' = Append(handed, <<turn[t].conv.proposal, t>>)
           \/ \E t \in Turns :
                /\ Conclude(t) /\ turn[t].outcome = "denied" /\ UNCHANGED handed
                /\ denied' = Append(denied, <<turn[t].conv.proposal, t>>)
<1>1. (\E t \in Turns : Conclude(t)) \/ UNCHANGED <<handed, denied>>
  BY DEF Next, Send, Throttle, RouteInput, RunStateless, Decide, Answer, RetryCommand,
         Redeliver, Tick, vars
<1> QED
  BY <1>1 DEF Conclude

\* What an appended log holds.
LEMMA AppendedAt ==
    ASSUME NEW log \in Seq(Proposals \X Turns), NEW p \in Proposals, NEW t \in Turns
    PROVE  LET new == Append(log, <<p, t>>) IN
             /\ DOMAIN log = 1..Len(log) /\ Len(log) \in Nat
             /\ DOMAIN new = 1..(Len(log) + 1)
             /\ \A i \in DOMAIN log : new[i] = log[i]
             /\ new[Len(log) + 1] = <<p, t>>
<1> <<p, t>> \in Proposals \X Turns
  OBVIOUS
<1> DEFINE e == <<p, t>>
<1> HIDE DEF e
<1>1. LET new == Append(log, e) IN
        /\ DOMAIN log = 1..Len(log) /\ Len(log) \in Nat
        /\ DOMAIN new = 1..(Len(log) + 1)
        /\ \A i \in DOMAIN log : new[i] = log[i]
        /\ new[Len(log) + 1] = e
  <2>1. e \in Proposals \X Turns
    BY DEF e
  <2> QED
    BY <2>1, AppendProperties, LenProperties
<1> QED
  BY <1>1 DEF e

\* A confirmed proposal is younger than the resume window, whatever wrote the
\* checkpoint last (Conversation.resumed, AgentGraphNodes.route_input).
THEOREM ConfirmsInTime == Spec => []ConfirmedInTime
<1>1. Init => ConfirmedInTime
  BY DEF Init, ConfirmedInTime, Fresh
<1>2. Inv /\ ConfirmedInTime /\ [Next]_vars => ConfirmedInTime'
  <2> SUFFICES ASSUME Inv, ConfirmedInTime, [Next]_vars,
                      NEW u \in Turns, turn'[u].step = "decided", turn'[u].outcome = "confirmed"
               PROVE  turn'[u].loadedAt - turn'[u].conv.askedAt <= Window
    BY DEF ConfirmedInTime
  <2>t. TypeOK
    BY DEF Inv
  <2>1. ASSUME turn'[u].step = turn[u].step, turn'[u].outcome = turn[u].outcome,
               turn'[u].loadedAt = turn[u].loadedAt, turn'[u].conv = turn[u].conv
        PROVE  turn'[u].loadedAt - turn'[u].conv.askedAt <= Window
    BY <2>1 DEF ConfirmedInTime
  <2>2. CASE RouteInput(u)
    <3>1. turn'[u].conv = Resumed(saved) /\ turn'[u].loadedAt = now
      BY <2>t, <2>2, RouteEffect
    <3>2. Resumed(saved).status = "confirmation"
      BY <2>t, <2>2, RouteEffect DEF Intent
    <3>3. Resumed(saved) = saved /\ ~(now - saved.askedAt > Window)
      BY <3>2 DEF Resumed, Idle
    <3>4. now \in Nat /\ saved.askedAt \in Nat /\ Window \in Nat
      BY <2>t, AgentAssumption DEF TypeOK, Conversations
    <3> QED
      BY <3>1, <3>3, <3>4
  <2>3. ASSUME NEW t \in Turns, NEW text \in Texts, Send(t, text)
        PROVE  turn'[u].loadedAt - turn'[u].conv.askedAt <= Window
    BY <2>t, <2>1, <2>3, SendEffect
  <2>4. ASSUME NEW t \in Turns, Others(t), t # u
        PROVE  turn'[u].loadedAt - turn'[u].conv.askedAt <= Window
    BY <2>1, <2>4 DEF Others
  <2>5. ASSUME NEW t \in Turns, Throttle(t) \/ Answer(t) \/ RetryCommand(t) \/ Redeliver(t)
        PROVE  turn'[u].loadedAt - turn'[u].conv.askedAt <= Window
    BY <2>t, <2>4, <2>5, EndEffect DEF Over, Restarted
  <2>6. ASSUME NEW t \in Turns, RouteInput(t)
        PROVE  turn'[u].loadedAt - turn'[u].conv.askedAt <= Window
    BY <2>t, <2>2, <2>4, <2>6, RouteEffect
  <2>7. ASSUME NEW t \in Turns, RunStateless(t)
        PROVE  turn'[u].loadedAt - turn'[u].conv.askedAt <= Window
    BY <2>t, <2>4, <2>7, StatelessEffect
  <2>8. ASSUME NEW t \in Turns, NEW o \in Decisions, Decide(t, o)
        PROVE  turn'[u].loadedAt - turn'[u].conv.askedAt <= Window
    BY <2>t, <2>4, <2>8, DecideEffect DEF Decisions
  <2>9. ASSUME NEW t \in Turns, Conclude(t)
        PROVE  turn'[u].loadedAt - turn'[u].conv.askedAt <= Window
    BY <2>t, <2>4, <2>9, ConcludeEffect
  <2>10. ASSUME Tick \/ UNCHANGED vars
         PROVE  turn'[u].loadedAt - turn'[u].conv.askedAt <= Window
    BY <2>1, <2>10 DEF Tick, vars
  <2> QED
    BY <2>3, <2>5, <2>6, <2>7, <2>8, <2>9, <2>10 DEF Next
<1> QED
  BY <1>1, <1>2, Invariant, PTL DEF Spec

\* A proposal is handed over a second time only when the "yes" that ran it first was
\* handled beside another message (AgentGraphNodes, Conversation).
THEOREM RunsOnce == Spec => []ProposalRunsOnce
<1>1. Init => ProposalRunsOnce
  BY DEF Init, ProposalRunsOnce
<1>2. Inv /\ ProposalRunsOnce /\ [Next]_vars => ProposalRunsOnce'
  <2> SUFFICES ASSUME Inv, ProposalRunsOnce, [Next]_vars PROVE ProposalRunsOnce'
    OBVIOUS
  <2>i. TypeOK /\ Handled /\ Sent /\ Forgotten /\ handed \in Seq(Proposals \X Turns)
    BY DEF Inv, TypeOK
  <2>s. ASSUME NEW i \in DOMAIN handed
        PROVE  /\ handed[i] \in Spent /\ handed[i][2] \in Turns
               /\ turn'[handed[i][2]].alone => turn[handed[i][2]].alone
    <3>1. handed[i] \in Spent
      BY DEF Spent, Entries
    <3>2. handed[i][2] \in Turns /\ turn[handed[i][2]].step # "unsent"
      BY <2>i, <3>1, EntryTypes DEF Sent
    <3> QED
      BY <2>i, <3>1, <3>2, Kept DEF Keeps
  <2>1. CASE UNCHANGED handed
    BY <2>1, <2>s DEF ProposalRunsOnce
  <2>2. ASSUME NEW t \in Turns, turn[t].conv.proposal \in Proposals,
               handed' = Append(handed, <<turn[t].conv.proposal, t>>)
        PROVE  ProposalRunsOnce'
    <3> DEFINE n == Len(handed)
    <3>1. /\ DOMAIN handed = 1..n /\ n \in Nat /\ DOMAIN handed' = 1..(n + 1)
          /\ \A i \in DOMAIN handed : handed'[i] = handed[i]
          /\ handed'[n + 1] = <<turn[t].conv.proposal, t>>
      BY <2>i, <2>2, AppendedAt
    <3>2. ASSUME NEW i \in DOMAIN handed, handed[i][1] = turn[t].conv.proposal
          PROVE  ~turn[handed[i][2]].alone
      BY <2>i, <2>s, <3>2 DEF Forgotten, Pending
    <3> HIDE DEF n
    <3>3. ASSUME NEW i \in DOMAIN handed', NEW j \in DOMAIN handed',
                 i < j, handed'[i][1] = handed'[j][1]
          PROVE  ~turn'[handed'[i][2]].alone
      <4>1. i \in DOMAIN handed /\ (j \in DOMAIN handed \/ j = n + 1)
        BY <3>1, <3>3
      <4>2. ~turn[handed[i][2]].alone
        BY <3>1, <3>2, <3>3, <4>1 DEF ProposalRunsOnce
      <4> QED
        BY <2>s, <3>1, <4>1, <4>2
    <3> QED
      BY <3>3 DEF ProposalRunsOnce
  <2>3. \A t \in Turns : turn[t].conv.proposal \in Proposals
    BY <2>i, Fields DEF TypeOK
  <2> QED
    BY <2>i, <2>1, <2>2, <2>3, LogStep
<1> QED
  BY <1>1, <1>2, Invariant, PTL DEF Spec

\* One of the two answers to a proposal, denied and handed over, was disturbed.
NotBoth == \A i \in DOMAIN denied, j \in DOMAIN handed :
             denied[i][1] = handed[j][1] =>
               ~turn[denied[i][2]].alone \/ ~turn[handed[j][2]].alone

\* A proposal the user denied is not run by a later "yes" (AgentGraphNodes.denied).
THEOREM DenialHolds == Spec => []DeniedNeverRuns
<1>1. Init => NotBoth
  BY DEF Init, NotBoth
<1>2. Inv /\ NotBoth /\ [Next]_vars => NotBoth'
  <2> SUFFICES ASSUME Inv, NotBoth, [Next]_vars,
                      NEW i \in DOMAIN denied', NEW j \in DOMAIN handed',
                      denied'[i][1] = handed'[j][1],
                      turn'[denied'[i][2]].alone, turn'[handed'[j][2]].alone
               PROVE  FALSE
    BY DEF NotBoth
  <2>i. TypeOK /\ Handled /\ Sent /\ Forgotten
        /\ handed \in Seq(Proposals \X Turns) /\ denied \in Seq(Proposals \X Turns)
    BY DEF Inv, TypeOK
  <2>s. ASSUME NEW e \in Spent, turn'[e[2]].alone
        PROVE  turn[e[2]].alone /\ ~Pending(e[1])
    <3>1. e[2] \in Turns /\ turn[e[2]].step # "unsent"
      BY <2>i, EntryTypes DEF Sent
    <3>2. turn[e[2]].alone
      BY <2>i, <2>s, <3>1, Kept DEF Keeps
    <3> QED
      BY <2>i, <3>2 DEF Forgotten
  <2>p. \A t \in Turns : turn[t].conv.proposal \in Proposals /\ Pending(turn[t].conv.proposal)
    BY <2>i, Fields DEF TypeOK, Pending
  <2>d. \A k \in DOMAIN denied : denied[k] \in Spent
    BY DEF Spent, Entries
  <2>h. \A k \in DOMAIN handed : handed[k] \in Spent
    BY DEF Spent, Entries
  <2>1. CASE UNCHANGED <<handed, denied>>
    BY <2>1, <2>d, <2>h, <2>s DEF NotBoth
  <2>2. ASSUME NEW t \in Turns, UNCHANGED denied,
               handed' = Append(handed, <<turn[t].conv.proposal, t>>)
        PROVE  FALSE
    <3>1. CASE j \in DOMAIN handed
      <4>1. handed'[j] = handed[j]
        BY <2>i, <2>2, <2>p, <3>1, AppendedAt
      <4>2. turn[denied[i][2]].alone /\ turn[handed[j][2]].alone
            /\ denied[i][1] = handed[j][1]
        BY <2>2, <2>d, <2>h, <2>s, <3>1, <4>1
      <4> QED
        BY <2>2, <3>1, <4>2 DEF NotBoth
    <3>2. CASE j \notin DOMAIN handed
      <4>1. handed'[j] = <<turn[t].conv.proposal, t>>
        BY <2>i, <2>2, <2>p, <3>2, AppendedAt
      <4> QED
        BY <2>2, <2>d, <2>p, <2>s, <4>1
    <3> QED
      BY <3>1, <3>2
  <2>3. ASSUME NEW t \in Turns, UNCHANGED handed,
               denied' = Append(denied, <<turn[t].conv.proposal, t>>)
        PROVE  FALSE
    <3>1. CASE i \in DOMAIN denied
      <4>1. denied'[i] = denied[i]
        BY <2>i, <2>3, <2>p, <3>1, AppendedAt
      <4>2. turn[denied[i][2]].alone /\ turn[handed[j][2]].alone
            /\ denied[i][1] = handed[j][1]
        BY <2>3, <2>d, <2>h, <2>s, <3>1, <4>1
      <4> QED
        BY <2>3, <3>1, <4>2 DEF NotBoth
    <3>2. CASE i \notin DOMAIN denied
      <4>1. denied'[i] = <<turn[t].conv.proposal, t>>
        BY <2>i, <2>3, <2>p, <3>2, AppendedAt
      <4> QED
        BY <2>3, <2>h, <2>p, <2>s, <4>1
    <3> QED
      BY <3>1, <3>2
  <2> QED
    BY <2>i, <2>1, <2>2, <2>3, LogStep
<1>3. NotBoth => DeniedNeverRuns
  BY DEF NotBoth, DeniedNeverRuns
<1> QED
  BY <1>1, <1>2, <1>3, Invariant, PTL DEF Spec

-----------------------------------------------------------------------------
\* When the "yes", the message it was read after and the message whose proposal it runs
\* were undisturbed, it runs the proposal last seen.
SeenBy(e) ==
    LET yes == e[2] IN
      Undisturbed(yes) /\ ~Disturbed(e[1].by) /\ ~Disturbed(turn[yes].after.by) =>
        e[1] = turn[yes].after.proposal

AllSeen == \A i \in DOMAIN handed : SeenBy(handed[i])

\* What is handed over now was seen last.
LEMMA HandsSeen ==
    ASSUME Inv, NEW t \in Turns, Conclude(t), turn[t].outcome = "confirmed",
           Undisturbed(t), ~Disturbed(turn[t].conv.proposal.by),
           ~Disturbed(turn[t].after.by)
    PROVE  turn[t].conv.proposal = turn[t].after.proposal
<1>i. TypeOK /\ Handled /\ Apart /\ Looked
  BY DEF Inv
<1>1. turn[t].step = "decided" /\ Flying(t) /\ turn[t].alone
  BY <1>i, ConcludeEffect DEF Flying, Undisturbed
<1>2. turn[t].conv.status = "confirmation" /\ turn[t].conv.proposal.by \in Turns
  BY <1>i, <1>1 DEF Handled, Shape, WellFormed
<1>3. turn[t].after = lastSeen /\ Seen(turn[t].conv)
  BY <1>i, <1>1 DEF Looked
<1>4. turn[turn[t].conv.proposal.by].step # "result"
  BY <1>i, <1>1, <1>2 DEF Apart, Flying
<1> QED
  BY <1>2, <1>3, <1>4 DEF Seen

\* A "yes" runs the very proposal the user was looking at, whatever other messages were
\* doing before (AgentGraphNodes.route_input, Conversation).
THEOREM YesRunsTheSeen == Spec => []YesRunsWhatWasSeen
<1>1. Init => AllSeen
  BY DEF Init, AllSeen
<1>2. Inv /\ AllSeen /\ [Next]_vars => AllSeen'
  <2> SUFFICES ASSUME Inv, AllSeen, [Next]_vars PROVE AllSeen'
    OBVIOUS
  <2>i. TypeOK /\ Handled /\ Sent /\ handed \in Seq(Proposals \X Turns)
    BY DEF Inv, TypeOK
  <2>k. \A u \in Turns : turn[u].step # "unsent" =>
          turn'[u].after = turn[u].after /\ (Undisturbed(u)' => Undisturbed(u))
    BY <2>i, Kept DEF Keeps
  <2>d. \A u \in Turns : Disturbed(u) => Disturbed(u)'
    <3>1. \A u \in Turns : turn[u].step = "unsent" => Undisturbed(u)
      BY <2>i DEF Handled, Shape, Fresh, Undisturbed
    <3> QED
      BY <2>k, <3>1 DEF Disturbed
  <2>s. ASSUME NEW e \in Proposals \X Turns, turn[e[2]].step # "unsent", SeenBy(e)
        PROVE  SeenBy(e)'
    BY <2>d, <2>k, <2>s DEF SeenBy, Disturbed
  <2>h. ASSUME NEW i \in DOMAIN handed
        PROVE  handed[i] \in Proposals \X Turns /\ turn[handed[i][2]].step # "unsent"
    <3>1. handed[i] \in Spent
      BY DEF Spent, Entries
    <3> QED
      BY <2>i, <3>1, EntryTypes DEF Sent
  <2>1. CASE UNCHANGED handed
    <3>1. ASSUME NEW i \in DOMAIN handed PROVE SeenBy(handed[i])'
      <4>1. PICK e \in Proposals \X Turns : e = handed[i]
        BY <2>h
      <4>2. SeenBy(e)'
        BY <2>h, <2>s, <4>1 DEF AllSeen
      <4> QED
        BY <2>1, <4>1, <4>2
    <3> QED
      BY <2>1, <3>1 DEF AllSeen
  <2>2. ASSUME NEW t \in Turns, Conclude(t), turn[t].outcome = "confirmed",
               handed' = Append(handed, <<turn[t].conv.proposal, t>>)
        PROVE  AllSeen'
    <3> DEFINE n == Len(handed)
    <3>p. turn[t].conv.proposal \in Proposals /\ turn[t].step # "unsent"
      BY <2>i, <2>2, Fields, ConcludeEffect DEF TypeOK
    <3>1. /\ DOMAIN handed = 1..n /\ n \in Nat /\ DOMAIN handed' = 1..(n + 1)
          /\ \A i \in DOMAIN handed : handed'[i] = handed[i]
          /\ handed'[n + 1] = <<turn[t].conv.proposal, t>>
      BY <2>i, <2>2, <3>p, AppendedAt
    <3>2. PICK e \in Proposals \X Turns : e = <<turn[t].conv.proposal, t>>
      BY <3>p
    <3>3. SeenBy(e)
      BY <2>2, <3>2, HandsSeen DEF SeenBy
    <3>4. SeenBy(e)'
      BY <2>s, <3>p, <3>2, <3>3
    <3> HIDE DEF n
    <3>5. ASSUME NEW i \in DOMAIN handed' PROVE SeenBy(handed[i])'
      <4>1. CASE i \in DOMAIN handed
        <5>1. PICK f \in Proposals \X Turns : f = handed[i]
          BY <2>h, <4>1
        <5>2. SeenBy(f)'
          BY <2>h, <2>s, <4>1, <5>1 DEF AllSeen
        <5> QED
          BY <3>1, <4>1, <5>1, <5>2
      <4>2. CASE i = n + 1
        BY <3>1, <3>2, <3>4, <4>2
      <4> QED
        BY <3>1, <3>5, <4>1, <4>2
    <3> QED
      BY <3>5 DEF AllSeen
  <2> QED
    BY <2>i, <2>1, <2>2, LogStep
<1>3. Inv /\ AllSeen => YesRunsWhatWasSeen
  <2> SUFFICES ASSUME Inv, AllSeen, NEW i \in DOMAIN handed,
                      \A u \in {handed[i][2], handed[i][1].by, turn[handed[i][2]].after.by}
                                 \ {NoTurn} : Undisturbed(u)
               PROVE  handed[i][1] = turn[handed[i][2]].after.proposal
    BY DEF YesRunsWhatWasSeen
  <2>1. handed[i] \in Spent /\ TypeOK
    BY DEF Spent, Entries, Inv
  <2>2. handed[i][2] \in Turns
    BY <2>1, EntryTypes
  <2> QED
    BY <2>2, NoTurnIsNone DEF AllSeen, SeenBy, Disturbed
<1> QED
  BY <1>1, <1>2, <1>3, Invariant, PTL DEF Spec
=============================================================================
