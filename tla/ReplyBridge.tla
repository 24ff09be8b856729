---------------------------- MODULE ReplyBridge ----------------------------
(***************************************************************************)
(* The gateway's side of the command path: BrokerForwarder.forward sends a *)
(* WhatsApp message to the bot, ReplyConsumer.handle sends the bot's reply *)
(* back, and the two share InFlightCommands and the chat's typing          *)
(* indicator.  One step is what the event loop runs between two awaits.    *)
(*                                                                         *)
(* A forward f is one call of forward(); its envelope id is fresh, so f    *)
(* also stands for the id.  Two forwards carry the same Msg when WhatsApp  *)
(* upserts one message twice.  The bot is external here: it answers an     *)
(* envelope, answers it again after a crash, or skips a duplicate (module  *)
(* CommandDelivery says when).                                             *)
(***************************************************************************)
EXTENDS Naturals, FiniteSets, Functions

CONSTANTS
    Forwards,   \* calls of BrokerForwarder.forward
    Chats,      \* WhatsApp chats
    Chat,       \* Chat[f]: the chat f's message was sent in
    Msg,        \* Msg[f]: the WhatsApp message f forwards
    Copies,     \* reply messages the broker can hold at once (bound)
    MaxLen,     \* messages in a reply (bound)
    Budget,     \* how often each kind of fault may happen (bound)
    MaxFaults   \* how many faults may happen together (bound)

FaultKinds == {"crash", "publish", "send", "presence", "again"}

ASSUME BridgeAssumption ==
    /\ Chat \in [Forwards -> Chats]
    /\ MaxLen \in Nat
    /\ Budget \in [FaultKinds -> Nat]
    /\ MaxFaults \in Nat

VARIABLES
    fwd,        \* fwd[f]: the await at which forward() is suspended
    published,  \* forwards whose envelope the broker accepted
    inBot,      \* published envelopes the bot still has to deal with
    skipped,    \* envelopes the bot skipped as duplicates
    reply,      \* reply[r]: reply message r in the replies queue
    answered,   \* answered[f]: replies the bot published for f
    inFlight,   \* InFlightCommands.byId
    raced,      \* forwards whose reply was resolved before they were tracked
    typing,     \* chats that show the bot as composing
    sends,      \* sends[f]: messages sent to WhatsApp as replies to f
    failed,     \* forwards of which a reply was dropped by a failing send
    faults      \* faults[k]: how often k happened so far

forwardVars == <<fwd, published>>
botVars     == <<inBot, skipped, answered>>
replyVars   == <<reply, sends, failed>>
vars == <<fwd, published, inBot, skipped, reply, answered, inFlight, raced,
          typing, sends, failed, faults>>

Calling == {"react", "typing", "publish", "confirm", "stop"}
Reply   == [id : Forwards, len : 0..MaxLen, at : {"queued", "handling", "ack"},
            sent : 0..MaxLen, known : BOOLEAN]
NoReply == [at |-> "none"]

TypeOK ==
    /\ fwd \in [Forwards -> Calling \cup {"idle", "done", "lost"}]
    /\ inBot \subseteq published /\ published \subseteq Forwards
    /\ skipped \subseteq published
    /\ reply \in [Copies -> Reply \cup {NoReply}]
    /\ \A r \in Copies : reply[r].at # "none" => reply[r].sent <= reply[r].len
    /\ answered \in [Forwards -> Nat]
    /\ inFlight \subseteq published
    /\ raced \subseteq published
    /\ typing \subseteq Chats
    /\ sends \in [Forwards -> Nat]
    /\ failed \subseteq published
    /\ faults \in [FaultKinds -> Nat]

Init ==
    /\ fwd = [f \in Forwards |-> "idle"]
    /\ published = {} /\ inBot = {} /\ skipped = {}
    /\ reply = [r \in Copies |-> NoReply]
    /\ answered = [f \in Forwards |-> 0]
    /\ inFlight = {} /\ raced = {} /\ typing = {}
    /\ sends = [f \in Forwards |-> 0]
    /\ failed = {}
    /\ faults = [k \in FaultKinds |-> 0]

FaultsLeft == FoldFunction(+, 0, faults) < MaxFaults

Fault(k) ==
    /\ faults[k] < Budget[k]
    /\ FaultsLeft
    /\ faults' = [faults EXCEPT ![k] = @ + 1]

FwdGoto(f, s) == fwd' = [fwd EXCEPT ![f] = s]

\* TypingIndicator.start and stop are best-effort: an error is swallowed.
Presence(ok, chats) ==
    IF ok THEN typing' = chats /\ UNCHANGED faults
    ELSE Fault("presence") /\ UNCHANGED typing

-----------------------------------------------------------------------------
(* BrokerForwarder.forward *)

Forward(f) ==
    /\ fwd[f] = "idle"
    /\ FwdGoto(f, "react")
    /\ UNCHANGED <<published, botVars, replyVars, inFlight, raced, typing, faults>>

\* ReactMessage.run sends the thumbs up.
React(f) ==
    /\ fwd[f] = "react"
    /\ FwdGoto(f, "typing")
    /\ UNCHANGED <<published, botVars, replyVars, inFlight, raced, typing, faults>>

\* ReactMessage.run throws outside the try block, and the command goes with it.
ReactFails(f) ==
    /\ fwd[f] = "react"
    /\ Fault("send")
    /\ FwdGoto(f, "lost")
    /\ UNCHANGED <<published, botVars, replyVars, inFlight, raced, typing>>

StartTyping(f, ok) ==
    /\ fwd[f] = "typing"
    /\ Presence(ok, typing \cup {Chat[f]})
    /\ FwdGoto(f, "publish")
    /\ UNCHANGED <<published, botVars, replyVars, inFlight, raced>>

\* CommandPublisher.publish up to waitForConfirms: the broker accepts.
Publish(f) ==
    /\ fwd[f] = "publish"
    /\ published' = published \cup {f}
    /\ inBot' = inBot \cup {f}
    /\ FwdGoto(f, "confirm")
    /\ UNCHANGED <<skipped, answered, replyVars, inFlight, raced, typing, faults>>

\* The publish throws: the broker does not take the envelope.
PublishFails(f) ==
    /\ fwd[f] = "publish"
    /\ Fault("publish")
    /\ FwdGoto(f, "stop")
    /\ UNCHANGED <<published, botVars, replyVars, inFlight, raced, typing>>

\* The confirm arrives and the command is tracked.
Track(f) ==
    /\ fwd[f] = "confirm"
    /\ inFlight' = inFlight \cup {f}
    /\ FwdGoto(f, "done")
    /\ UNCHANGED <<published, botVars, replyVars, raced, typing, faults>>

\* waitForConfirms rejects although the broker took the envelope: the confirm
\* was lost, or another outstanding publish was refused.
ConfirmFails(f) ==
    /\ fwd[f] = "confirm"
    /\ Fault("publish")
    /\ FwdGoto(f, "stop")
    /\ UNCHANGED <<published, botVars, replyVars, inFlight, raced, typing>>

\* Mutant: the catch block does not stop the indicator.
StopTypingForgets(f, ok) ==
    /\ ok
    /\ fwd[f] = "stop"
    /\ FwdGoto(f, "done")
    /\ UNCHANGED <<published, botVars, replyVars, inFlight, raced, typing, faults>>

\* The catch block: the error is logged and the indicator stopped.
StopTyping(f, ok) ==
    /\ fwd[f] = "stop"
    /\ Presence(ok, typing \ {Chat[f]})
    /\ FwdGoto(f, "done")
    /\ UNCHANGED <<published, botVars, replyVars, inFlight, raced>>

-----------------------------------------------------------------------------
(* The bot. *)

\* A terminal reply of n messages; `again' when the bot dies before it
\* remembers the answer, so that the envelope is redelivered and answered
\* once more.
BotAnswers(f, r, n, again) ==
    /\ f \in inBot
    /\ reply[r] = NoReply
    /\ reply' = [reply EXCEPT ![r] = [id |-> f, len |-> n, at |-> "queued",
                                      sent |-> 0, known |-> FALSE]]
    /\ answered' = [answered EXCEPT ![f] = @ + 1]
    /\ IF again THEN Fault("again") /\ UNCHANGED inBot
       ELSE inBot' = inBot \ {f} /\ UNCHANGED faults
    /\ UNCHANGED <<forwardVars, skipped, inFlight, raced, typing, sends, failed>>

\* DeliveryGuard skips a second envelope of a message whose first envelope it
\* holds or has answered: no reply has the second one's id.
BotSkips(f) ==
    /\ f \in inBot
    /\ \E g \in published \ (skipped \cup {f}) : Msg[g] = Msg[f]
    /\ inBot' = inBot \ {f}
    /\ skipped' = skipped \cup {f}
    /\ UNCHANGED <<forwardVars, answered, replyVars, inFlight, raced, typing,
                   faults>>

-----------------------------------------------------------------------------
(* ReplyConsumer.handle, under RabbitBroker.dispatch *)

ReplyAt(r, place) == reply' = [reply EXCEPT ![r].at = place]

\* Mutant: get without delete.
ReceiveKeeps(r) ==
    /\ reply[r].at = "queued"
    /\ LET f == reply[r].id IN
        /\ reply' = [reply EXCEPT ![r].at = "handling", ![r].known = f \in inFlight]
        /\ raced' = IF fwd[f] = "confirm" THEN raced \cup {f} ELSE raced
    /\ UNCHANGED <<forwardVars, botVars, inFlight, typing, sends, failed, faults>>

\* A delivery: InFlightCommands.resolve runs before the first await.
Receive(r) ==
    /\ reply[r].at = "queued"
    /\ LET f == reply[r].id IN
        /\ reply' = [reply EXCEPT ![r].at = "handling", ![r].known = f \in inFlight]
        /\ inFlight' = inFlight \ {f}
        /\ raced' = IF fwd[f] = "confirm" THEN raced \cup {f} ELSE raced
    /\ UNCHANGED <<forwardVars, botVars, typing, sends, failed, faults>>

\* Mutant: one message too many.
SendNextTooFar(r) ==
    /\ reply[r].at = "handling"
    /\ reply[r].sent <= reply[r].len
    /\ reply' = [reply EXCEPT ![r].sent = @ + 1]
    /\ sends' = [sends EXCEPT ![reply[r].id] = @ + 1]
    /\ UNCHANGED <<forwardVars, botVars, inFlight, raced, typing, failed, faults>>

\* The next message of the reply is sent.
SendNext(r) ==
    /\ reply[r].at = "handling"
    /\ reply[r].sent < reply[r].len
    /\ reply' = [reply EXCEPT ![r].sent = @ + 1]
    /\ sends' = [sends EXCEPT ![reply[r].id] = @ + 1]
    /\ UNCHANGED <<forwardVars, botVars, inFlight, raced, typing, failed, faults>>

\* Mutant: no `finally' around the ack.
SendFailsUnacked(r) ==
    /\ reply[r].at = "handling"
    /\ reply[r].sent < reply[r].len
    /\ Fault("send")
    /\ ReplyAt(r, "unacked")
    /\ UNCHANGED <<forwardVars, botVars, inFlight, raced, typing, sends, failed>>

\* sendMessage throws: dispatch logs the error and acks, so the rest of the
\* reply is dropped and the indicator is left as it is.
SendFails(r) ==
    /\ reply[r].at = "handling"
    /\ reply[r].sent < reply[r].len
    /\ Fault("send")
    /\ ReplyAt(r, "ack")
    /\ failed' = failed \cup {reply[r].id}
    /\ UNCHANGED <<forwardVars, botVars, inFlight, raced, typing, sends>>

\* Every message is out; a known command's indicator is stopped.
StopReply(r, ok) ==
    /\ reply[r].at = "handling"
    /\ reply[r].sent = reply[r].len
    /\ IF reply[r].known THEN Presence(ok, typing \ {Chat[reply[r].id]})
       ELSE ok /\ UNCHANGED <<typing, faults>>
    /\ ReplyAt(r, "ack")
    /\ UNCHANGED <<forwardVars, botVars, inFlight, raced, sends, failed>>

\* Mutant: the reply is put back instead of acked.
AckRequeues(r) ==
    /\ reply[r].at = "ack"
    /\ reply' = [reply EXCEPT ![r].at = "queued", ![r].sent = 0]
    /\ UNCHANGED <<forwardVars, botVars, inFlight, raced, typing, sends, failed,
                   faults>>

Ack(r) ==
    /\ reply[r].at = "ack"
    /\ reply' = [reply EXCEPT ![r] = NoReply]
    /\ UNCHANGED <<forwardVars, botVars, inFlight, raced, typing, sends, failed,
                   faults>>

-----------------------------------------------------------------------------
\* The gateway dies: its calls and its registry are gone, WhatsApp clears the
\* presence of a client that went away, and unacked replies are requeued.
Crash ==
    /\ Fault("crash")
    /\ fwd' = [f \in Forwards |-> IF fwd[f] \in Calling THEN "lost" ELSE fwd[f]]
    /\ inFlight' = {}
    /\ raced' = {}
    /\ typing' = {}
    /\ reply' = [r \in Copies |->
                    IF reply[r] = NoReply THEN NoReply
                    ELSE [reply[r] EXCEPT !.at = "queued", !.sent = 0, !.known = FALSE]]
    /\ UNCHANGED <<published, botVars, sends, failed>>

ForwardStep(f) ==
    \/ React(f) \/ ReactFails(f)
    \/ Publish(f) \/ PublishFails(f)
    \/ Track(f) \/ ConfirmFails(f)
    \/ \E ok \in BOOLEAN : StartTyping(f, ok) \/ StopTyping(f, ok)

ReplyStep(r) ==
    \/ Receive(r)
    \/ SendNext(r) \/ SendFails(r)
    \/ \E ok \in BOOLEAN : StopReply(r, ok)
    \/ Ack(r)

BotStep(f) ==
    \/ \E r \in Copies, n \in 0..MaxLen, again \in BOOLEAN : BotAnswers(f, r, n, again)
    \/ BotSkips(f)

Next ==
    \/ \E f \in Forwards : Forward(f) \/ ForwardStep(f) \/ BotStep(f)
    \/ \E r \in Copies : ReplyStep(r)
    \/ Crash

Spec == Init /\ [][Next]_vars

\* Awaits end, the broker delivers replies, and the bot answers (see
\* CommandDelivery!EveryCommandSettled).
Fairness ==
    /\ \A f \in Forwards : WF_vars(ForwardStep(f)) /\ WF_vars(BotStep(f))
    /\ \A r \in Copies : WF_vars(ReplyStep(r))

FairSpec == Spec /\ Fairness

-----------------------------------------------------------------------------
(* Properties. *)

QueuedFor(f) == \E r \in Copies : reply[r].at = "queued" /\ reply[r].id = f

\* InFlightCommands keeps no entry whose reply was already handled: an entry
\* waits for the bot or for a queued reply, except for the two leaks the
\* gateway has, a reply that overtook the confirm and a skipped duplicate.
RegistryExplained ==
    \A f \in inFlight : f \in inBot \/ QueuedFor(f) \/ f \in raced \/ f \in skipped

\* While presence updates and sends succeed, a chat shows the bot as composing
\* only for a command on its way: being published, tracked, or having its
\* reply sent.
TypingExplained ==
    faults["presence"] = 0 /\ faults["send"] = 0 =>
        \A ch \in typing : \E f \in Forwards :
            /\ Chat[f] = ch
            /\ \/ fwd[f] \in {"publish", "confirm", "stop"}
               \/ f \in inFlight
               \/ \E r \in Copies : /\ reply[r].at = "handling"
                                    /\ reply[r].id = f /\ reply[r].known

\* A chat gets each reply once, and once more at most per gateway restart: a
\* requeued reply is sent again, an acked one never.
SendsBounded ==
    \A f \in Forwards : sends[f] <= MaxLen * answered[f] * (1 + faults["crash"])

\* Every reply in the queue is handled and acked, even when a send throws.
RepliesHandled == \A r \in Copies : reply[r] # NoReply ~> reply[r] = NoReply
=============================================================================
