-------------------------- MODULE CommandDelivery --------------------------
(***************************************************************************)
(* The bot's side of the command path: the RabbitMQ queues `commands`,     *)
(* `commands.retry` and `commands.dlq`, and the CommandConsumer coroutine  *)
(* that runs for every delivery.  One step of a task is what its coroutine *)
(* does between two awaits.                                                *)
(*                                                                         *)
(* A message copy in the broker is a tag: `at' says where the copy is and  *)
(* `env' what its envelope holds.  A command stands for one WhatsApp       *)
(* message, `<jid>:<message_id>', so two copies of a command carry the     *)
(* same idempotency key.  RabbitMQ hands out ready copies in any order,    *)
(* which covers FIFO as well as the reordering a redelivery causes.        *)
(***************************************************************************)
EXTENDS Naturals, FiniteSets

CONSTANTS
    Cmds,         \* WhatsApp messages that become commands
    Tags,         \* message copies the broker can hold at once (bound)
    NoCmd, NoTag, \* absent values
    Exclusive,    \* commands with CommandConfig.exclusive (,dl)
    Unkeyed,      \* commands whose envelope has no message_id
    Poison,       \* commands whose run kills the process
    Prefetch,     \* RabbitBroker.PREFETCH_COUNT
    MaxAttempts,  \* RetryRouter.MAX_ATTEMPTS
    AnswerCap,    \* answers are counted up to here (bound)
    Budget        \* how often each kind of fault may happen (bound)

FaultKinds == {"duplicate", "crash", "stop", "timeout", "replay", "publish",
               "redis"}

ASSUME ConstantsAssumption ==
    /\ NoCmd \notin Cmds
    /\ NoTag \notin Tags
    /\ Exclusive \subseteq Cmds
    /\ Unkeyed \subseteq Cmds
    /\ Poison \subseteq Cmds
    /\ Prefetch \in Nat \ {0}
    /\ MaxAttempts \in Nat \ {0}
    /\ AnswerCap \in Nat \ {0}
    /\ Budget \in [FaultKinds -> Nat]

VARIABLES
    at,        \* at[t]: the queue that holds copy t, or "unacked", or "none"
    env,       \* env[t]: the envelope of copy t
    step,      \* step[t]: the await at which t's coroutine is suspended
    running,   \* DeliveryGuard._running
    lane,      \* the task that holds CommandConsumer._exclusive_lane
    inbox,     \* RedisCommandInbox: the keys marked done
    answers,   \* answers[c]: terminal replies published for c, up to AnswerCap
    accepted,  \* commands the gateway got a publisher confirm for
    rejected,  \* commands of which a delivery was rejected without requeue
    phase,     \* the consumer: "consuming", "draining",
               \* "closing" or "stopped"
    faults     \* faults[k]: how often k happened so far

brokerVars == <<at, env>>
taskVars   == <<step, running, lane>>
vars == <<at, env, step, running, lane, inbox, answers, accepted, rejected,
          phase, faults>>

-----------------------------------------------------------------------------
Envelope == [cmd : Cmds, attempts : Nat, replayed : BOOLEAN]
Blank    == [cmd |-> NoCmd, attempts |-> 0, replayed |-> FALSE]
Places   == {"none", "commands", "unacked", "retry", "dlq"}
Steps    == {"idle", "check", "handle", "lane", "run", "retry", "dlq",
             "reply", "refuse", "mark", "ack", "reject"}

\* The steps between the claim and its release.
Claiming == Steps \ {"idle", "ack", "reject"}
\* The steps at which an admitted exclusive command holds the lane.
LaneSteps == {"run", "retry", "dlq", "reply"}

TypeOK ==
    /\ at \in [Tags -> Places]
    /\ env \in [Tags -> Envelope \cup {Blank}]
    /\ \A t \in Tags : at[t] # "none" => env[t] \in Envelope
    /\ step \in [Tags -> Steps]
    /\ \A t \in Tags : at[t] = "unacked" <=> step[t] # "idle"
    /\ running \subseteq Cmds
    /\ lane \in Tags \cup {NoTag}
    /\ inbox \subseteq Cmds
    /\ answers \in [Cmds -> Nat]
    /\ accepted \subseteq Cmds
    /\ rejected \subseteq Cmds
    /\ phase \in {"consuming", "draining", "closing", "stopped"}
    /\ faults \in [FaultKinds -> Nat]

Init ==
    /\ at = [t \in Tags |-> "none"]
    /\ env = [t \in Tags |-> Blank]
    /\ step = [t \in Tags |-> "idle"]
    /\ running = {}
    /\ lane = NoTag
    /\ inbox = {}
    /\ answers = [c \in Cmds |-> 0]
    /\ accepted = {}
    /\ rejected = {}
    /\ phase = "consuming"
    /\ faults = [k \in FaultKinds |-> 0]

-----------------------------------------------------------------------------
Unacked == {t \in Tags : at[t] = "unacked"}
Cmd(t)  == env[t].cmd
Keyed(t) == Cmd(t) \notin Unkeyed

\* The key the delivery claims and looks up; a replay neither checks nor
\* takes the claim, and its own _key is only used to mark it answered.
Guarded(t) == Keyed(t) /\ ~env[t].replayed

Fault(k) ==
    /\ faults[k] < Budget[k]
    /\ faults' = [faults EXCEPT ![k] = @ + 1]

\* The broker stores envelope e in queue q under a tag that was free.
Enqueue(u, q, e) ==
    /\ at[u] = "none"
    /\ at' = [at EXCEPT ![u] = q]
    /\ env' = [env EXCEPT ![u] = e]

\* Mutant: the lock is not released on the way out.
ReleaseKeepsLane(t) ==
    /\ running' = IF Guarded(t) THEN running \ {Cmd(t)} ELSE running
    /\ UNCHANGED lane

\* Leaving `claim' and the AsyncExitStack of `_handle', in one go: no await
\* separates the two.
Release(t) ==
    /\ running' = IF Guarded(t) THEN running \ {Cmd(t)} ELSE running
    /\ lane' = IF lane = t THEN NoTag ELSE lane

\* The envelope RetryRouter.route parks: the delivered one, one attempt later.
Retried(t) == [env[t] EXCEPT !.attempts = @ + 1]

\* The publish connection is open; RabbitBroker.close closes it first.
CanPublish == phase \in {"consuming", "draining"}

\* A publish raises, at any time or because the publish connection is closed.
PublishFault ==
    IF phase = "closing" THEN UNCHANGED faults ELSE Fault("publish")

\* One more reply for c is in the replies queue.
Answered(c) == [answers EXCEPT ![c] = IF @ < AnswerCap THEN @ + 1 ELSE @]

Goto(t, s) == step' = [step EXCEPT ![t] = s]

-----------------------------------------------------------------------------
(* The gateway, the retry queue and the operator. *)

\* CommandPublisher.publish, confirmed by the broker.
Publish(c, u) ==
    /\ c \notin accepted
    /\ Enqueue(u, "commands", [cmd |-> c, attempts |-> 0, replayed |-> FALSE])
    /\ accepted' = accepted \cup {c}
    /\ UNCHANGED <<taskVars, inbox, answers, rejected, phase, faults>>

\* The same WhatsApp message is upserted and published once more.
PublishAgain(c, u) ==
    /\ c \in accepted
    /\ Fault("duplicate")
    /\ Enqueue(u, "commands", [cmd |-> c, attempts |-> 0, replayed |-> FALSE])
    /\ UNCHANGED <<taskVars, inbox, answers, accepted, rejected, phase>>

\* The x-message-ttl of commands.retry dead-letters the copy to commands.
RetryDue(t) ==
    /\ at[t] = "retry"
    /\ at' = [at EXCEPT ![t] = "commands"]
    /\ UNCHANGED <<env, taskVars, inbox, answers, accepted, rejected, phase,
                   faults>>

\* DlqReplayer.replay for one dead letter.  The script publishes before it
\* acks, so if it dies in between the dead letter is still there.
Replay(t, u, acked) ==
    /\ at[t] = "dlq"
    /\ at[u] = "none"
    /\ Fault("replay")
    /\ at' = [at EXCEPT ![u] = "commands", ![t] = IF acked THEN "none" ELSE "dlq"]
    /\ env' = [env EXCEPT ![u] = [env[t] EXCEPT !.attempts = 0, !.replayed = TRUE],
                          ![t] = IF acked THEN Blank ELSE @]
    /\ UNCHANGED <<taskVars, inbox, answers, accepted, rejected, phase>>

-----------------------------------------------------------------------------
(* The consumer coroutine. *)

\* Mutant: the `finally' of the claim also covers the skipped duplicate.
DeliverDropsClaim(t) ==
    /\ at[t] = "commands"
    /\ phase = "consuming"
    /\ Cardinality(Unacked) < Prefetch
    /\ at' = [at EXCEPT ![t] = "unacked"]
    /\ IF Guarded(t) /\ Cmd(t) \in running
       THEN Goto(t, "ack") /\ running' = running \ {Cmd(t)}
       ELSE /\ running' = IF Guarded(t) THEN running \cup {Cmd(t)} ELSE running
            /\ Goto(t, IF Guarded(t) THEN "check" ELSE "handle")
    /\ UNCHANGED <<env, lane, inbox, answers, accepted, rejected, phase, faults>>

\* A delivery starts its task, which runs to its first await: it claims the
\* key or, when the key is already running, skips straight to the ack.
Deliver(t) ==
    /\ at[t] = "commands"
    /\ phase = "consuming"
    /\ Cardinality(Unacked) < Prefetch
    /\ at' = [at EXCEPT ![t] = "unacked"]
    /\ IF Guarded(t) /\ Cmd(t) \in running
       THEN Goto(t, "ack") /\ UNCHANGED running
       ELSE /\ running' = IF Guarded(t) THEN running \cup {Cmd(t)} ELSE running
            /\ Goto(t, IF Guarded(t) THEN "check" ELSE "handle")
    /\ UNCHANGED <<env, lane, inbox, answers, accepted, rejected, phase, faults>>

\* Mutant: an answered command is skipped without an ack.
CheckInboxForgetsAck(t) ==
    /\ step[t] = "check"
    /\ IF Cmd(t) \in inbox
       THEN Goto(t, "idle") /\ Release(t)
       ELSE Goto(t, "handle") /\ UNCHANGED <<running, lane>>
    /\ UNCHANGED <<brokerVars, inbox, answers, accepted, rejected, phase, faults>>

\* DeliveryGuard.already_answered.
CheckInbox(t) ==
    /\ step[t] = "check"
    /\ IF Cmd(t) \in inbox
       THEN Goto(t, "ack") /\ Release(t)
       ELSE Goto(t, "handle") /\ UNCHANGED <<running, lane>>
    /\ UNCHANGED <<brokerVars, inbox, answers, accepted, rejected, phase, faults>>

\* Redis is down at the check: is_done fails open.
CheckInboxFailsOpen(t) ==
    /\ step[t] = "check"
    /\ Fault("redis")
    /\ Goto(t, "handle")
    /\ UNCHANGED <<brokerVars, running, lane, inbox, answers, accepted, rejected,
                   phase>>

\* CommandHandler.handle ends without running a command: nothing matched, a
\* builtin reply, a gate rejection, or an error before the command ran.
Refuse(t) ==
    /\ step[t] = "handle"
    /\ Cmd(t) \notin Poison
    /\ Goto(t, "refuse")
    /\ UNCHANGED <<brokerVars, running, lane, inbox, answers, accepted, rejected,
                   phase, faults>>

\* Mutant: the command is marked as done when it starts.
AdmitMarks(t) ==
    /\ step[t] = "handle"
    /\ Goto(t, IF Cmd(t) \in Exclusive THEN "lane" ELSE "run")
    /\ inbox' = IF Keyed(t) THEN inbox \cup {Cmd(t)} ELSE inbox
    /\ UNCHANGED <<brokerVars, running, lane, answers, accepted, rejected, phase,
                   faults>>

\* The gate admits the command and _enter_lane is called.
Admit(t) ==
    /\ step[t] = "handle"
    /\ Goto(t, IF Cmd(t) \in Exclusive THEN "lane" ELSE "run")
    /\ UNCHANGED <<brokerVars, running, lane, inbox, answers, accepted, rejected,
                   phase, faults>>

EnterLane(t) ==
    /\ step[t] = "lane"
    /\ lane = NoTag
    /\ lane' = t
    /\ Goto(t, "run")
    /\ UNCHANGED <<brokerVars, running, inbox, answers, accepted, rejected, phase,
                   faults>>

\* Mutant: the lane covers the run only, not the reply.
FinishLeavesLane(t) ==
    /\ step[t] = "run"
    /\ Cmd(t) \notin Poison
    /\ Goto(t, "reply")
    /\ lane' = IF lane = t THEN NoTag ELSE lane
    /\ UNCHANGED <<brokerVars, running, inbox, answers, accepted, rejected, phase,
                   faults>>

\* Command.run returns its messages, or raises a BotError or an unexpected
\* error that is answered right away.
Finish(t) ==
    /\ step[t] = "run"
    /\ Cmd(t) \notin Poison
    /\ Goto(t, "reply")
    /\ UNCHANGED <<brokerVars, running, lane, inbox, answers, accepted, rejected,
                   phase, faults>>

\* Command.run raises an ExternalServiceError; RetryRouter.route decides.  A
\* DownloadError is allowed DOWNLOAD_MAX_ATTEMPTS = 1 attempts.
Fail(t, limit) ==
    /\ step[t] = "run"
    /\ Cmd(t) \notin Poison
    /\ Goto(t, IF env[t].attempts + 1 < limit THEN "retry" ELSE "dlq")
    /\ UNCHANGED <<brokerVars, running, lane, inbox, answers, accepted, rejected,
                   phase, faults>>

\* Mutant: a scheduled retry is marked as answered.
ScheduleRetryMarks(t, u) ==
    /\ step[t] = "retry"
    /\ CanPublish
    /\ Enqueue(u, "retry", Retried(t))
    /\ inbox' = IF Keyed(t) THEN inbox \cup {Cmd(t)} ELSE inbox
    /\ Goto(t, "ack")
    /\ Release(t)
    /\ UNCHANGED <<answers, accepted, rejected, phase, faults>>

\* The envelope is parked in commands.retry, and the delivery ends unanswered.
ScheduleRetry(t, u) ==
    /\ step[t] = "retry"
    /\ CanPublish
    /\ Enqueue(u, "retry", Retried(t))
    /\ Goto(t, "ack")
    /\ Release(t)
    /\ UNCHANGED <<inbox, answers, accepted, rejected, phase, faults>>

\* The envelope goes to commands.dlq as received; the error reply follows.
DeadLetter(t, u) ==
    /\ step[t] = "dlq"
    /\ CanPublish
    /\ Enqueue(u, "dlq", env[t])
    /\ Goto(t, "reply")
    /\ UNCHANGED <<running, lane, inbox, answers, accepted, rejected, phase, faults>>

\* _publish_reply up to the broker's confirm.
PublishReply(t) ==
    /\ step[t] \in {"reply", "refuse"}
    /\ CanPublish
    /\ answers' = Answered(Cmd(t))
    /\ Goto(t, "mark")
    /\ UNCHANGED <<brokerVars, running, lane, inbox, accepted, rejected, phase,
                   faults>>

\* Mutant: the answered key is not remembered.
MarkAnsweredForgets(t) ==
    /\ step[t] = "mark"
    /\ Goto(t, "ack")
    /\ Release(t)
    /\ UNCHANGED <<brokerVars, inbox, answers, accepted, rejected, phase, faults>>

\* DeliveryGuard.mark_answered, then the claim and the lane are left.
MarkAnswered(t) ==
    /\ step[t] = "mark"
    /\ inbox' = IF Keyed(t) THEN inbox \cup {Cmd(t)} ELSE inbox
    /\ Goto(t, "ack")
    /\ Release(t)
    /\ UNCHANGED <<brokerVars, answers, accepted, rejected, phase, faults>>

\* Redis is down at the mark: mark_done swallows the error.
MarkAnsweredFails(t) ==
    /\ step[t] = "mark"
    /\ Keyed(t)
    /\ Fault("redis")
    /\ Goto(t, "ack")
    /\ Release(t)
    /\ UNCHANGED <<brokerVars, inbox, answers, accepted, rejected, phase>>

\* Leaving `async with message.process()' normally.
Ack(t) ==
    /\ step[t] = "ack"
    /\ at' = [at EXCEPT ![t] = "none"]
    /\ env' = [env EXCEPT ![t] = Blank]
    /\ Goto(t, "idle")
    /\ UNCHANGED <<running, lane, inbox, answers, accepted, rejected, phase, faults>>

\* A publish to replies, commands.retry or commands.dlq raises.  Nothing in
\* `_answer' catches it: it leaves the claim, the lane and the callback.
PublishFails(t) ==
    /\ step[t] \in {"retry", "dlq", "reply", "refuse"}
    /\ PublishFault
    /\ Goto(t, "reject")
    /\ Release(t)
    /\ UNCHANGED <<brokerVars, inbox, answers, accepted, rejected, phase>>

\* The publish raises because its confirm is lost: the broker has the message.
PublishUnconfirmed(t, u) ==
    /\ \/ /\ step[t] = "retry"
          /\ Enqueue(u, "retry", Retried(t))
          /\ UNCHANGED answers
       \/ /\ step[t] = "dlq"
          /\ Enqueue(u, "dlq", env[t])
          /\ UNCHANGED answers
       \/ /\ step[t] \in {"reply", "refuse"}
          /\ answers' = Answered(Cmd(t))
          /\ UNCHANGED brokerVars
    /\ PublishFault
    /\ Goto(t, "reject")
    /\ Release(t)
    /\ UNCHANGED <<inbox, accepted, rejected, phase>>

\* message.process() rejects with requeue=False; `commands' has no
\* dead-letter exchange, so the copy is gone.
Reject(t) ==
    /\ step[t] = "reject"
    /\ at' = [at EXCEPT ![t] = "none"]
    /\ env' = [env EXCEPT ![t] = Blank]
    /\ rejected' = rejected \cup {Cmd(t)}
    /\ Goto(t, "idle")
    /\ UNCHANGED <<running, lane, inbox, answers, accepted, phase, faults>>

-----------------------------------------------------------------------------
(* Process death, redeploys and restarts. *)

\* Every coroutine ends, the claims and the lock die with the process, and
\* the broker puts the unacked copies back.
Die ==
    /\ at' = [t \in Tags |-> IF at[t] = "unacked" THEN "commands" ELSE at[t]]
    /\ step' = [t \in Tags |-> "idle"]
    /\ running' = {}
    /\ lane' = NoTag
    /\ UNCHANGED <<env, inbox, answers, accepted, rejected>>

\* The process dies, or its consume connection does; it comes back consuming.
Crash ==
    /\ phase # "stopped"
    /\ Fault("crash")
    /\ Die
    /\ phase' = "consuming"

\* Running a poison command kills the process, every time.
PoisonCrash(t) ==
    /\ step[t] = "run"
    /\ Cmd(t) \in Poison
    /\ Die
    /\ phase' = "consuming"
    /\ UNCHANGED faults

\* RabbitBroker.stop_consuming: the consumers are cancelled.
StopConsuming ==
    /\ phase = "consuming"
    /\ Fault("stop")
    /\ phase' = "draining"
    /\ UNCHANGED <<brokerVars, taskVars, inbox, answers, accepted, rejected>>

\* _idle is set: nothing is in flight, and the connections are closed.
CloseIdle ==
    /\ phase = "draining"
    /\ Unacked = {}
    /\ phase' = "stopped"
    /\ UNCHANGED <<brokerVars, taskVars, inbox, answers, accepted, rejected, faults>>

\* DRAIN_GRACE_SECONDS ran out: close() goes on with tasks in flight and
\* closes the publish connection.
DrainTimeout ==
    /\ phase = "draining"
    /\ Unacked # {}
    /\ Fault("timeout")
    /\ phase' = "closing"
    /\ UNCHANGED <<brokerVars, taskVars, inbox, answers, accepted, rejected>>

\* The consume connection is closed too: what was not acked is requeued.
CloseConsumer ==
    /\ phase = "closing"
    /\ Die
    /\ phase' = "stopped"
    /\ UNCHANGED faults

\* CommandConsumer.start in the next process.
Start ==
    /\ phase = "stopped"
    /\ phase' = "consuming"
    /\ UNCHANGED <<brokerVars, taskVars, inbox, answers, accepted, rejected, faults>>

-----------------------------------------------------------------------------
\* One await of one delivery is over, and nothing went wrong around it.
Progress(t) ==
    \/ CheckInbox(t)
    \/ Refuse(t)
    \/ Admit(t)
    \/ EnterLane(t)
    \/ Finish(t)
    \/ \E limit \in {1, MaxAttempts} : Fail(t, limit)
    \/ \E u \in Tags : ScheduleRetry(t, u) \/ DeadLetter(t, u)
    \/ PublishReply(t)
    \/ MarkAnswered(t)
    \/ Ack(t)
    \/ Reject(t)
    \/ PoisonCrash(t)

Faulty(t) ==
    \/ CheckInboxFailsOpen(t)
    \/ MarkAnsweredFails(t)
    \/ PublishFails(t)
    \/ \E u \in Tags : PublishUnconfirmed(t, u)

Environment ==
    \/ \E c \in Cmds, u \in Tags : Publish(c, u) \/ PublishAgain(c, u)
    \/ \E t, u \in Tags, acked \in BOOLEAN : Replay(t, u, acked)
    \/ Crash
    \/ StopConsuming
    \/ DrainTimeout

Next ==
    \/ Environment
    \/ CloseIdle
    \/ CloseConsumer
    \/ Start
    \/ \E t \in Tags : Deliver(t) \/ RetryDue(t) \/ Progress(t) \/ Faulty(t)

Spec == Init /\ [][Next]_vars

\* The event loop resumes every coroutine whose await is over, and awaits
\* end: HTTP calls, RPCs and downloads have timeouts.  The broker delivers to
\* a consumer with room and expires parked messages, and a redeployed
\* container starts.  Nothing is assumed of the gateway, of the operator or
\* of the faults.
Fairness ==
    /\ \A t \in Tags : WF_vars(Deliver(t)) /\ WF_vars(RetryDue(t))
    /\ \A t \in Tags : WF_vars(Progress(t))
    /\ WF_vars(CloseIdle)
    /\ WF_vars(CloseConsumer)
    /\ WF_vars(Start)

FairSpec == Spec /\ Fairness

-----------------------------------------------------------------------------
(* Safety. *)

InLane(t) == Cmd(t) \in Exclusive /\ step[t] \in LaneSteps
Claims(t) == Guarded(t) /\ step[t] \in Claiming

\* The lane a task holds is held from the moment its exclusive command starts
\* until its reply is published, so two downloads never overlap, not even
\* while one of them serializes its media.
LaneHeld == \A t \in Tags : InLane(t) => lane = t

\* The lane is never leaked: whoever holds it is an exclusive command that is
\* still running, whichever way earlier holders left (reply, retry, failed
\* publish, crash).
LaneUsed ==
    lane # NoTag =>
        /\ lane \in Tags
        /\ Cmd(lane) \in Exclusive
        /\ step[lane] \in LaneSteps \cup {"mark"}

\* Only exclusive commands wait for the lane.
LaneQueue == \A t \in Tags : step[t] = "lane" => Cmd(t) \in Exclusive

LaneSafe == LaneHeld /\ LaneUsed /\ LaneQueue

\* The claims in DeliveryGuard._running are those of the deliveries under way:
\* none is dropped early, and none outlives its delivery.
ClaimsMatch == running = {Cmd(t) : t \in {u \in Tags : Claims(u)}}

\* Two deliveries of one keyed command are never answered side by side.
ClaimsUnique ==
    \A t, u \in Tags : Claims(t) /\ Claims(u) /\ Cmd(t) = Cmd(u) => t = u

ClaimsSafe == ClaimsMatch /\ ClaimsUnique

\* The inbox never makes the bot skip a command it has not answered: a key is
\* marked only after the reply is out.
InboxSound ==
    /\ \A c \in inbox : answers[c] > 0
    /\ \A t \in Tags : step[t] = "mark" => answers[Cmd(t)] > 0

\* A copy that still leads to a reply: queued, parked, or being handled.
Pending(t) ==
    \/ at[t] \in {"commands", "retry"}
    \/ at[t] = "unacked" /\ step[t] # "ack"

\* No accepted command vanishes in silence: until it is answered (or one of its
\* deliveries was rejected, see NoLostCommand) some copy is still on its way,
\* through every crash, duplicate, retry, dead letter and redeploy.  A copy
\* skipped as a duplicate or as already answered never was the last one.
Accounted ==
    \A c \in accepted :
        \/ answers[c] > 0
        \/ c \in rejected
        \/ \E t \in Tags : Cmd(t) = c /\ Pending(t)

\* Without a replay, and as long as no poison command kills the process, a
\* keyed command is answered once, and once more at most for each crash, drain
\* timeout, Redis outage or failed publish: duplicates, retries and graceful
\* redeploys alone never make the bot answer twice.
AnswersBounded ==
    faults["replay"] = 0 /\ accepted \cap Poison = {} =>
        \A c \in Cmds \ Unkeyed :
            answers[c] <= 1 + faults["crash"] + faults["timeout"]
                            + faults["redis"] + faults["publish"]

\* What the PRD promises ("a failed reply-confirm means the command isn't
\* done, so the bot simply does not ack"): no delivery of an unanswered
\* command is dropped.
NoLostCommand == \A c \in rejected : answers[c] > 0

-----------------------------------------------------------------------------
(* Liveness, under FairSpec. *)

\* Every accepted command gets its terminal reply in spite of crashes,
\* redeploys, retries, duplicates and Redis outages, unless a publish failed
\* and one of its deliveries was rejected.
EveryCommandSettled ==
    \A c \in Cmds : c \in accepted ~> (answers[c] > 0 \/ c \in rejected)

\* A redeploy's drain ends: the tasks in flight finish, even those that wait
\* for the lane, and no new delivery keeps them company.
DrainEnds == phase = "draining" ~> phase # "draining"
=============================================================================
