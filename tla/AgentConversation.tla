-------------------------- MODULE AgentConversation --------------------------
(***************************************************************************)
(* The conversation one user has with the agent in one chat: the LangGraph *)
(* run of every message (GraphAgentOrchestrator, AgentGraphNodes), the     *)
(* checkpoint those runs share (Conversation), and what the command        *)
(* handler does with a run's result, retries and redeliveries included.    *)
(*                                                                         *)
(* Messages of one user are handled concurrently, each run loads the       *)
(* checkpoint when it starts and saves its own copy after every node, so   *)
(* the last writer wins.  A proposal is named by the message whose answer  *)
(* made it and by how many that message had made.                          *)
(***************************************************************************)
EXTENDS Integers, Sequences, FiniteSets

CONSTANTS
  Turns,          \* the messages of the user
  NoTurn,         \* no message
  Window,         \* RESUME_WINDOW_SECONDS, in ticks
  MaxAttempts,    \* MAX_ATTEMPTS
  MaxTries,       \* handlings of one message by retries (MAX_ATTEMPTS of the router)
  MaxInFlight,    \* messages of the user handled at once (bound)
  MaxFaults,      \* retries, redeliveries, Redis failures and throttled turns (bound)
  MaxTime         \* last tick of the clock (bound)

ASSUME AgentAssumption ==
  /\ NoTurn \notin Turns
  /\ Window \in Nat /\ MaxAttempts \in Nat /\ MaxTries \in Nat /\ MaxFaults \in Nat /\ MaxInFlight \in Nat /\ MaxTime \in Nat

VARIABLES
  now,       \* time.time()
  saved,     \* the conversation in the checkpoint
  turn,      \* per message: where its handling stands
  lastSeen,  \* the answer the user saw last: its message and its proposal
  handed,    \* the proposals handed to the command handler, each with its "yes"
  denied,    \* the proposals denied, each with its "no"
  faults     \* the faults so far

vars == <<now, saved, turn, lastSeen, handed, denied, faults>>

Texts == {"yes", "no", "other"}
Steps == {"unsent", "queued", "routed", "decided", "result", "answered", "dead"}

(* Decisions of a run: "command" comes from the LLM or from a direct match *)
(* with an example, "reply" is every answer that ends the conversation     *)
(* without a command (suggest, unresolvable, unavailable, over_budget).    *)
Decisions == {"command", "confirm", "clarify", "reply"}
Outcomes == Decisions \cup {"none", "confirmed", "denied"}

Proposals  == [by: Turns \cup {NoTurn}, n: Nat]
NoProposal == [by |-> NoTurn, n |-> 0]
Nothing    == [by |-> NoTurn, proposal |-> NoProposal]

Conversations ==
  [status: {"idle", "confirmation", "answer"}, proposal: Proposals,
   attempts: Nat, askedAt: Nat]

Answers == [by: Turns \cup {NoTurn}, proposal: Proposals]

Handlings ==
  [step: Steps, text: Texts, conv: Conversations, outcome: Outcomes, loadedAt: Nat,
   tries: Nat, made: Nat, again: BOOLEAN, stateless: BOOLEAN, confirmed: BOOLEAN,
   alone: BOOLEAN, after: Answers]

(* Conversation(): nothing is pending.                                     *)
Idle == [status |-> "idle", proposal |-> NoProposal, attempts |-> 0, askedAt |-> 0]

Fresh == [step |-> "unsent", text |-> "other", conv |-> Idle, outcome |-> "none",
          loadedAt |-> 0, tries |-> 0, made |-> 0, again |-> FALSE, stateless |-> FALSE,
          confirmed |-> FALSE, alone |-> TRUE, after |-> Nothing]

Init ==
  /\ now = 0 /\ saved = Idle /\ lastSeen = Nothing
  /\ turn = [t \in Turns |-> Fresh]
  /\ handed = <<>> /\ denied = <<>> /\ faults = 0

InFlight == {t \in Turns : turn[t].step \notin {"unsent", "answered", "dead"}}

\* Mutant: the window is not looked at.
ResumedAlways(c) == c

Resumed(c) == IF now - c.askedAt > Window THEN Idle ELSE c

Exhausted(c) == c.attempts >= MaxAttempts

\* Mutant: the proposal pending first is kept.
AwaitConfirmationFirst(c, proposal) ==
  [c EXCEPT !.status = "confirmation", !.askedAt = now,
            !.proposal = IF c.proposal = NoProposal THEN proposal ELSE c.proposal]

AwaitConfirmation(c, proposal) ==
  [c EXCEPT !.status = "confirmation", !.proposal = proposal, !.askedAt = now]

\* Mutant: the pending proposal is not cleared.
AwaitAnswerKept(c) == [c EXCEPT !.askedAt = now, !.attempts = c.attempts + 1]

\* Mutant: the attempts are counted down from none.
AwaitAnswerDown(c) ==
  [c EXCEPT !.status = "answer", !.proposal = NoProposal, !.askedAt = now,
            !.attempts = c.attempts - 1]

AwaitAnswer(c) ==
  [c EXCEPT !.status = "answer", !.proposal = NoProposal, !.askedAt = now,
            !.attempts = c.attempts + 1]

(* Only a pending confirmation gives "yes" and "no" a meaning.             *)
Intent(c, text) ==
  CASE c.status = "confirmation" /\ text = "yes" -> "confirmed"
    [] c.status = "confirmation" /\ text = "no"  -> "denied"
    [] OTHER -> "none"

\* Mutant: a confirmed proposal stays pending.
AfterOutcomeKept(c, outcome, proposal) ==
  CASE outcome = "confirm" -> AwaitConfirmation(c, proposal)
    [] outcome = "confirmed" -> c
    [] outcome = "denied" \/ (outcome = "clarify" /\ ~Exhausted(c)) -> AwaitAnswer(c)
    [] OTHER -> Idle

(* What the terminal node of an outcome leaves in the conversation.        *)
AfterOutcome(c, outcome, proposal) ==
  CASE outcome = "confirm" -> AwaitConfirmation(c, proposal)
    [] outcome = "denied"  -> AwaitAnswer(c)
    [] outcome = "clarify" /\ ~Exhausted(c) -> AwaitAnswer(c)
    [] OTHER -> Idle

Executes == {"command", "confirmed"}

-----------------------------------------------------------------------------
(* What is remembered of a message once it is over.                        *)
Closed(r, step) == [Fresh EXCEPT !.step = step, !.after = r.after, !.again = r.again,
                                 !.stateless = r.stateless, !.alone = r.alone]

Proposal(t) == IF turn[t].outcome = "confirm" THEN [by |-> t, n |-> turn[t].made] ELSE NoProposal

(* The message is handled again from its start.                            *)
Again(r) == [r EXCEPT !.step = "queued", !.conv = Idle, !.outcome = "none", !.loadedAt = 0,
                      !.again = TRUE, !.stateless = FALSE]

Fault == faults < MaxFaults /\ faults' = faults + 1

(* The user writes.                                                        *)
Send(t, text) ==
  /\ turn[t].step = "unsent" /\ Cardinality(InFlight) < MaxInFlight
  /\ turn' = [u \in Turns |->
       IF u = t THEN [Fresh EXCEPT !.step = "queued", !.text = text, !.after = lastSeen,
                                   !.alone = InFlight = {}]
       ELSE IF u \in InFlight THEN [turn[u] EXCEPT !.alone = FALSE] ELSE turn[u]]
  /\ UNCHANGED <<now, saved, lastSeen, handed, denied, faults>>

(* ThrottledAgent refuses the turn: no answer, the graph does not run.     *)
Throttle(t) ==
  /\ turn[t].step = "queued"
  /\ turn' = [turn EXCEPT ![t] = Closed(turn[t], "answered")]
  /\ Fault /\ UNCHANGED <<now, saved, lastSeen, handed, denied>>

(* route_input: load the checkpoint, drop it when it is too old, save it   *)
(* again.                                                                  *)
RouteInput(t) ==
  LET c == Resumed(saved)
      i == Intent(c, turn[t].text)
  IN  /\ turn[t].step = "queued"
      /\ turn' = [turn EXCEPT ![t].step = IF i = "none" THEN "routed" ELSE "decided",
                              ![t].conv = c, ![t].outcome = i, ![t].loadedAt = now,
                              ![t].stateless = FALSE]
      /\ saved' = c
      /\ UNCHANGED <<now, lastSeen, handed, denied, faults>>

(* A Redis failure of any node's load or save: the whole graph runs again  *)
(* on an empty in-memory checkpoint, and nothing of the turn is kept.      *)
RunStateless(t) ==
  /\ turn[t].step \in {"queued", "routed", "decided"} /\ ~turn[t].stateless
  /\ turn' = [turn EXCEPT ![t].step = "routed", ![t].conv = Idle, ![t].outcome = "none",
                          ![t].stateless = TRUE]
  /\ Fault /\ UNCHANGED <<now, saved, lastSeen, handed, denied>>

(* retrieve_examples and call_llm; the checkpoint saved after them still   *)
(* carries the conversation as this run loaded it.                         *)
Decide(t, outcome) ==
  /\ turn[t].step = "routed" /\ outcome \in Decisions
  /\ turn' = [turn EXCEPT ![t].step = "decided", ![t].outcome = outcome,
                          ![t].made = IF outcome = "confirm" THEN @ + 1 ELSE @]
  /\ saved' = IF turn[t].stateless THEN saved ELSE turn[t].conv
  /\ UNCHANGED <<now, lastSeen, handed, denied, faults>>

(* The terminal node and its save; an executing one hands its command to   *)
(* the command handler.                                                    *)
Conclude(t) ==
  LET r == turn[t]
      entry == <<r.conv.proposal, t>>
  IN  /\ r.step = "decided"
      /\ saved' = IF r.stateless THEN saved ELSE AfterOutcome(r.conv, r.outcome, Proposal(t))
      /\ turn' = [turn EXCEPT ![t].step = "result", ![t].conv = Idle,
                              ![t].confirmed = @ \/ r.outcome = "confirmed"]
      /\ handed' = IF r.outcome = "confirmed" THEN Append(handed, entry) ELSE handed
      /\ denied' = IF r.outcome = "denied" THEN Append(denied, entry) ELSE denied
      /\ UNCHANGED <<now, lastSeen, faults>>

(* The answer, a command's or the agent's own, reaches the user.           *)
Answer(t) ==
  /\ turn[t].step = "result"
  /\ turn' = [turn EXCEPT ![t] = Closed(turn[t], "answered")]
  /\ lastSeen' = [by |-> t, proposal |-> Proposal(t)]
  /\ UNCHANGED <<now, saved, handed, denied, faults>>

(* The command fails with an ExternalServiceError: the message is handled  *)
(* again from its start, or dead-lettered with an error as its answer.     *)
RetryCommand(t) ==
  LET last == turn[t].tries + 1 >= MaxTries
  IN  /\ turn[t].step = "result" /\ turn[t].outcome \in Executes
      /\ turn' = [turn EXCEPT ![t] = IF last THEN Closed(turn[t], "dead")
                                  ELSE [Again(turn[t]) EXCEPT !.tries = @ + 1]]
      /\ lastSeen' = IF last THEN [by |-> t, proposal |-> NoProposal] ELSE lastSeen
      /\ IF last THEN UNCHANGED faults ELSE Fault
      /\ UNCHANGED <<now, saved, handed, denied>>

(* The bot stops before the acknowledgement and the message is redelivered.*)
Redeliver(t) ==
  /\ turn[t].step \in {"routed", "decided", "result"}
  /\ turn' = [turn EXCEPT ![t] = Again(turn[t])]
  /\ Fault /\ UNCHANGED <<now, saved, lastSeen, handed, denied>>

Tick == now < MaxTime /\ now' = now + 1 /\ UNCHANGED <<saved, turn, lastSeen, handed, denied, faults>>

Next ==
  \/ \E t \in Turns : \/ \E text \in Texts : Send(t, text)
                      \/ Throttle(t) \/ RouteInput(t) \/ RunStateless(t)
                      \/ \E o \in Decisions : Decide(t, o)
                      \/ Conclude(t) \/ Answer(t) \/ RetryCommand(t) \/ Redeliver(t)
  \/ Tick

Spec == Init /\ [][Next]_vars

-----------------------------------------------------------------------------
TypeOK ==
  /\ now \in Nat /\ faults \in Nat /\ saved \in Conversations
  /\ lastSeen \in Answers
  /\ turn \in [Turns -> Handlings]
  /\ handed \in Seq(Proposals \X Turns) /\ denied \in Seq(Proposals \X Turns)

(* Handled once, with its memory and with no other message beside it.      *)
Undisturbed(t) == turn[t].alone /\ ~turn[t].again /\ ~turn[t].stateless

(* A "yes" runs the very proposal the user was looking at when it was      *)
(* written, provided the "yes", the message whose proposal it runs and the *)
(* one answered last were each undisturbed: anything less, and the saved   *)
(* proposal can be one the user never saw, or an older one.                *)
YesRunsWhatWasSeen ==
  \A i \in DOMAIN handed :
    LET proposal == handed[i][1]
        yes      == handed[i][2]
    IN  (\A u \in {yes, proposal.by, turn[yes].after.by} \ {NoTurn} : Undisturbed(u))
        => proposal = turn[yes].after.proposal

(* A proposal is handed over a second time only when the "yes" that ran it *)
(* first was handled beside another message, which can put it back: after  *)
(* a "yes" handled alone no redelivery, retry or later "yes" runs it.      *)
ProposalRunsOnce ==
  \A i, j \in DOMAIN handed :
    i < j /\ handed[i][1] = handed[j][1] => ~turn[handed[i][2]].alone

(* A confirmed proposal is younger than the resume window, whichever run   *)
(* wrote the checkpoint last.                                              *)
ConfirmedInTime ==
  \A t \in Turns :
    turn[t].step = "decided" /\ turn[t].outcome = "confirmed" =>
      turn[t].loadedAt - turn[t].conv.askedAt <= Window

(* A proposal the user denied is not run by a later "yes", unless one of   *)
(* the two answers was handled together with another message.              *)
DeniedNeverRuns ==
  \A i \in DOMAIN denied, j \in DOMAIN handed :
    denied[i][1] = handed[j][1] =>
      ~turn[denied[i][2]].alone \/ ~turn[handed[j][2]].alone

(* docs/adr/0008: running a turn again yields the same routing.            *)
RerunRoutesAlike ==
  \A t \in Turns :
    (turn[t].step = "decided" /\ turn[t].confirmed /\ turn[t].alone /\ now = 0
       /\ ~turn[t].stateless)
    => turn[t].outcome = "confirmed"
=============================================================================
