------------------------------ MODULE CommandRun ------------------------------
(***************************************************************************)
(* One message asking for a command, from its arrival on one of the three  *)
(* platforms to its answer: the gate, the command's runs (the catalogue's, *)
(* one event at a time), the flags, the retries of the WhatsApp consumer   *)
(* and the rendering of the other two adapters.  Which message reaches     *)
(* which worker, and the reply log, are CommandDelivery's; which command   *)
(* the language model picks is AgentConversation's.                        *)
(***************************************************************************)
EXTENDS GroupCommands, TextCommands, FootballCommands, Naturals, FiniteSets

CONSTANTS MAX_ATTEMPTS,     \* RetryRouter.MAX_ATTEMPTS
          MaxBatch,         \* bound on ,command Nx (the code's limit is 5)
          MaxDeaths         \* bound on the crashes of the worker

ASSUME BoundsAssumption == {MAX_ATTEMPTS, MaxBatch} \subseteq Nat \ {0} /\ MaxDeaths \in Nat

VARIABLES msg,          \* the message, and the settings of its chat and sender
          phase,        \* how far it has come
          left,         \* the runs of its batch still to do
          rest,         \* what is left of the current run
          said,         \* the reply so far: BotMessages
          seen,         \* what the chat has been sent
          done,         \* the effects, in order
          ported,       \* whether the WhatsApp port was used
          attempts,     \* the envelope's attempts
          deaths        \* crashes while it was handled

vars == <<msg, phase, left, rest, said, seen, done, ported, attempts, deaths>>

Tables == {GroupCommandTable, ImageCommandTable, TextCommandTable, FootballCommandTable}

\* Every command is registered once.
Catalogue == [c \in UNION {DOMAIN table : table \in Tables} |->
                (CHOOSE table \in Tables : c \in DOMAIN table)[c]]

Marks(m) == Catalogue[m.command].marks

\* Media only comes along on WhatsApp, and ,config asks WhatsApp only there.
Runs(m) == {r \in Catalogue[m.command].runs :
    m.platform # "whatsapp" =>
        {r.events[i] : i \in DOMAIN r.events}
          \cap ({"media"} \cup IF m.command = "config" THEN {"port"} ELSE {}) = {}}

Answered == [events |-> <<>>, end |-> "done"]

Message(kind) == [kind |-> kind, to |-> "chat", once |-> kind \in Media \cup {"raw"}]
Text == Message("text")

BotMessages == [kind: Kinds \cup {"nothing", "unsupported", "link", "raw_buffer"},
                to: {"chat", "sender"}, once: BOOLEAN]

-----------------------------------------------------------------------------
(***************************************************************************)
(* What may be asked, and of which adapter.                                *)
(***************************************************************************)

Messages == [command: DOMAIN Catalogue, platform: {"whatsapp", "discord", "telegram"},
             route: {"handler", "agent"}, place: {"private", "group", "nsfw"},
             flags: SUBSET {"dm", "show"}, dev: BOOLEAN, off: BOOLEAN,
             batch: 1..MaxBatch]

\* The handlers of Discord and Telegram offer what is declared for every platform.
Offered(m) == m.platform # "whatsapp" /\ m.route = "handler" => "all" \in Marks(m)

\* Slash commands are built without the WhatsApp-only flags.
FlagsOffered(m) ==
    m.flags \subseteq IF m.platform = "discord" /\ m.route = "handler"
                        THEN {} ELSE Marks(m)

\* Only public and NSFW commands can be switched off for a chat.
Togglable(m) == Marks(m) \cap {"admin", "dev"} = {}

\* On WhatsApp the agent only rewrites the text, before everything modelled here;
\* a batch is split off only there; only Discord marks its channels.
Askable(m) ==
    /\ Offered(m)
    /\ FlagsOffered(m)
    /\ m.off => Togglable(m)
    /\ m.platform = "whatsapp" => m.route = "handler"
    /\ m.batch > 1 => m.platform = "whatsapp" /\ m.flags = {}
    /\ m.place = "nsfw" => m.platform = "discord" /\ m.route = "handler"
    /\ m.dev => "dev" \in Marks(m) \/ m.batch > 1

Init ==
    /\ msg \in {m \in Messages : Askable(m)}
    /\ phase = "arrived"
    /\ left = 0 /\ rest = Answered
    /\ said = <<>> /\ seen = <<>> /\ done = <<>> /\ ported = FALSE
    /\ attempts = 0 /\ deaths = 0

-----------------------------------------------------------------------------
(***************************************************************************)
(* Admission.                                                              *)
(***************************************************************************)

\* CommandGate: dev_only or off_here (no command is disabled).
GateRejects(m) == ("dev" \in Marks(m) /\ ~m.dev) \/ m.off

GroupOnlyRejects(m) == "group" \in Marks(m) /\ m.place = "private"

NsfwChannelRejects(m) == "nsfw" \in Marks(m) /\ m.place = "group"

\* The agents of Discord and Telegram run what they mapped, asking nobody.
Rejects(m) ==
    /\ m.route = "handler"
    /\ \/ GateRejects(m)
       \/ m.platform # "whatsapp" /\ GroupOnlyRejects(m)
       \/ m.platform = "discord" /\ NsfwChannelRejects(m)

\* Mutant: a batch that is refused is emptied rather than cut to one.
AdmittedNone(m) == IF m.dev \/ m.batch = 1 THEN m.batch ELSE 0

\* Only developers run a batch.
Admitted(m) == IF m.dev THEN m.batch ELSE 1

Reject ==
    /\ phase = "arrived" /\ Rejects(msg)
    /\ phase' = "answering" /\ said' = <<Text>>
    /\ UNCHANGED <<msg, left, rest, seen, done, ported, attempts, deaths>>

Admit ==
    /\ phase = "arrived" /\ ~Rejects(msg)
    /\ phase' = "admitted" /\ left' = Admitted(msg)
    /\ UNCHANGED <<msg, rest, said, seen, done, ported, attempts, deaths>>

\* Telegram asks who the admins are before it asks the gate; a failure is logged.
AskAdminFails ==
    /\ phase = "arrived"
    /\ msg.platform = "telegram" /\ msg.route = "handler" /\ msg.place = "group"
    /\ "admin" \in Marks(msg)
    /\ phase' = "lost"
    /\ UNCHANGED <<msg, left, rest, said, seen, done, ported, attempts, deaths>>

-----------------------------------------------------------------------------
(***************************************************************************)
(* Running it.                                                             *)
(***************************************************************************)

BeginRun ==
    /\ phase = "admitted"
    /\ phase' = "running"
    /\ rest' \in IF GroupOnlyRejects(msg) THEN Answer("text") ELSE Runs(msg)
    /\ UNCHANGED <<msg, left, said, seen, done, ported, attempts, deaths>>

Step ==
    /\ phase = "running" /\ rest.events # <<>>
    /\ LET e == Head(rest.events) IN
         /\ rest' = [rest EXCEPT !.events = Tail(@)]
         /\ said' = IF e \in Kinds THEN Append(said, Message(e)) ELSE said
         /\ done' = IF e \in Effects THEN Append(done, e) ELSE done
         /\ ported' = (ported \/ e = "port")
    /\ UNCHANGED <<msg, phase, left, seen, attempts, deaths>>

\* Mutant: only the first message of the reply is treated.
ApplyFlagsFirst(m, messages) == [i \in DOMAIN messages |->
    [messages[i] EXCEPT
       !.to = IF "dm" \in m.flags /\ m.platform = "whatsapp" /\ m.place = "group" /\ i = 1
                THEN "sender" ELSE @,
       !.once = @ /\ ~("show" \in m.flags /\ messages[i].kind \in Media)]]

\* dm sends everything to whoever asked, who has an address of their own only in
\* a WhatsApp group; show lifts view-once from what carries it as a field.
ApplyFlags(m, messages) == [i \in DOMAIN messages |->
    [messages[i] EXCEPT
       !.to = IF "dm" \in m.flags /\ m.platform = "whatsapp" /\ m.place = "group"
                THEN "sender" ELSE @,
       !.once = @ /\ ~("show" \in m.flags /\ messages[i].kind \in Media)]]

\* Off WhatsApp an empty reply is announced.
Reply(m, messages) ==
    IF messages = <<>> /\ m.platform # "whatsapp" THEN <<Message("nothing")>> ELSE messages

EndRun ==
    /\ phase = "running" /\ rest = Answered
    /\ left' = left - 1
    /\ IF left > 1
         THEN phase' = "admitted" /\ said' = ApplyFlags(msg, said)
         ELSE phase' = "answering" /\ said' = Reply(msg, ApplyFlags(msg, said))
    /\ UNCHANGED <<msg, rest, seen, done, ported, attempts, deaths>>

Raised == phase = "running" /\ rest.events = <<>> /\ rest.end \in Errors

\* Mutant: the retried envelope keeps its count.
RetryUncounted ==
    /\ phase = "running" /\ rest.events = <<>> /\ rest.end = "service"
    /\ msg.platform = "whatsapp" /\ attempts + 1 < MAX_ATTEMPTS
    /\ phase' = "arrived" /\ said' = <<>> /\ left' = 0 /\ rest' = Answered
    /\ UNCHANGED <<msg, seen, done, ported, attempts, deaths>>

Retries == msg.platform = "whatsapp" /\ rest.end = "service" /\ attempts + 1 < MAX_ATTEMPTS

\* What an earlier run of the batch said is dropped with the rest.
Retry ==
    /\ Raised /\ Retries
    /\ attempts' = attempts + 1
    /\ phase' = "arrived" /\ said' = <<>> /\ left' = 0 /\ rest' = Answered
    /\ UNCHANGED <<msg, seen, done, ported, deaths>>

\* The error's own words or a generic text, always to the chat.
Apologise ==
    /\ Raised /\ ~Retries
    /\ phase' = "answering" /\ said' = <<Text>> /\ left' = 0 /\ rest' = Answered
    /\ UNCHANGED <<msg, seen, done, ported, attempts, deaths>>

\* The task that refreshes "typing..." shares a task group with the run: when it
\* fails the run is cancelled wherever it is, and nobody answers.
TypingFails ==
    /\ msg.platform = "telegram" /\ phase \in {"admitted", "running", "answering"}
    /\ ~Rejects(msg)
    /\ phase' = "lost"
    /\ UNCHANGED <<msg, left, rest, said, seen, done, ported, attempts, deaths>>

-----------------------------------------------------------------------------
(***************************************************************************)
(* Answering.                                                              *)
(***************************************************************************)

\* What an address, or raw media, becomes once it is downloaded.
Buffered == [image |-> "image_buffer", video |-> "video_buffer", audio |-> "audio_buffer",
             raw |-> "raw_buffer"]

\* What one message becomes: Discord cannot render a sticker and turns a video
\* address, or audio it could not download, into a link; Telegram sends a caption
\* too long for its picture, and a long text, as texts of their own.
Rendered(m, message) == LET kind == message.kind
                            As(k) == [message EXCEPT !.kind = k]
                            Loaded == As(Buffered[kind]) IN
    IF m.platform = "discord"
      THEN CASE kind = "sticker" -> {<<As("unsupported")>>}
             [] kind \in {"video", "raw"} -> {<<As("link")>>}
             [] kind = "audio" -> {<<As("audio_buffer")>>, <<As("link")>>}
             [] kind = "image" /\ m.route = "handler" -> {<<As("image_buffer")>>, <<message>>}
             [] OTHER -> {<<message>>}
      ELSE CASE kind = "text" -> {<<message>>, <<message, message>>}
             [] kind \in {"audio", "raw"} -> {<<message>>, <<Loaded>>}
             [] kind \in {"image", "video"} ->
                  {<<k>> : k \in {message, Loaded}}
                    \cup {<<k, Text>> : k \in {message, Loaded}}
             [] kind \in {"image_buffer", "video_buffer"} -> {<<message>>, <<message, Text>>}
             [] OTHER -> {<<message>>}

\* The whole reply in one publication.
Publish ==
    /\ phase = "answering" /\ msg.platform = "whatsapp"
    /\ phase' = "answered" /\ seen' = said /\ said' = <<>>
    /\ UNCHANGED <<msg, left, rest, done, ported, attempts, deaths>>

\* One message after the other.
SendNext ==
    /\ phase = "answering" /\ msg.platform # "whatsapp"
    /\ \E r \in Rendered(msg, Head(said)) : seen' = seen \o r
    /\ said' = Tail(said)
    /\ phase' = IF Len(said) = 1 THEN "answered" ELSE phase
    /\ UNCHANGED <<msg, left, rest, done, ported, attempts, deaths>>

\* The first failure ends it, with a generic text where the router catches it.
SendFails ==
    /\ phase = "answering" /\ msg.platform # "whatsapp"
    /\ phase' = "lost" /\ said' = <<>>
    /\ seen' \in {seen} \cup
         IF msg.platform = "telegram" \/ msg.route = "agent" THEN {Append(seen, Text)} ELSE {}
    /\ UNCHANGED <<msg, left, rest, done, ported, attempts, deaths>>

-----------------------------------------------------------------------------

\* The worker dies: only WhatsApp's queue delivers the message again.
Die ==
    /\ phase \in {"arrived", "admitted", "running", "answering"}
    /\ deaths < MaxDeaths
    /\ deaths' = deaths + 1
    /\ phase' = IF msg.platform = "whatsapp" THEN "arrived" ELSE "lost"
    /\ left' = 0 /\ rest' = Answered /\ said' = <<>>
    /\ UNCHANGED <<msg, seen, done, ported, attempts>>

Settled == phase \in {"answered", "lost"} /\ UNCHANGED vars

Next ==
    \/ Reject \/ Admit \/ AskAdminFails
    \/ BeginRun \/ Step \/ EndRun \/ Retry \/ Apologise \/ TypingFails
    \/ Publish \/ SendNext \/ SendFails
    \/ Die \/ Settled

Handle == Reject \/ Admit \/ BeginRun \/ Step \/ EndRun \/ Retry \/ Apologise
            \/ Publish \/ SendNext

Spec == Init /\ [][Next]_vars /\ WF_vars(Handle)

-----------------------------------------------------------------------------
(***************************************************************************)
(* Properties.                                                             *)
(***************************************************************************)

\* Every variable has its type.
TypeOK ==
    /\ msg \in Messages
    /\ phase \in {"arrived", "admitted", "running", "answering", "answered", "lost"}
    /\ left \in 0..MaxBatch
    /\ rest \in [events: Seq(Events), end: Errors \cup {"done"}]
    /\ {said, seen} \subseteq Seq(BotMessages)
    /\ done \in Seq(Effects) /\ ported \in BOOLEAN
    /\ attempts \in 0..MAX_ATTEMPTS - 1 /\ deaths \in 0..MaxDeaths

\* A retry runs the command again from its start, and RetryRouter asks for one on
\* any ExternalServiceError: no command raises one after it changed something.
RetryRepeatsNothing ==
    [][attempts' > attempts => done = <<>>]_vars

\* ADR 0001 calls replay safe for nearly every command.  Adding or banning somebody
\* at random, uploading a file and leaving a list by position are not: each happens
\* once for every run of the batch and every redelivery, and never more often.
EffectsOncePerLife ==
    \A e \in Unkeyed : Cardinality({i \in DOMAIN done : done[i] = e})
                         <= (IF msg.dev THEN msg.batch ELSE 1) * (1 + deaths)

\* Whoever is told nothing, or that there was nothing to tell, has had something
\* done for them, except by ,ban and ,animal (its picture service's rate limit).
SilenceMeansDone ==
    phase = "answered" /\ (seen = <<>> \/ \E i \in DOMAIN seen : seen[i].kind = "nothing")
      => done # <<>> \/ msg.command \in {"ban", "animal"}

\* On WhatsApp a group that was to be spared the media (dm) is, whole replies at a
\* time, and pictures for adults can be opened once unless asked for otherwise.
FlagsHold ==
    phase = "answered" /\ msg.platform = "whatsapp" =>
      \A i \in DOMAIN seen : seen[i].kind \in Media \cup {"raw"} =>
        /\ "dm" \in msg.flags /\ msg.place = "group" => seen[i].to = "sender"
        /\ seen[i].once = ("show" \notin msg.flags)

\* What Discord and Telegram offer needs nothing of WhatsApp and can be shown there.
OfferedMeansUsable ==
    msg.platform # "whatsapp" /\ msg.route = "handler" =>
      ~ported /\ \A i \in DOMAIN seen : seen[i].kind # "unsupported"

\* Every message is settled in the end, its retries used up or not.
Settles == <>(phase \in {"answered", "lost"})

\* docs/prd-per-group-config.md: all three platform paths honour what a chat has
\* switched off.  The agents of Discord and Telegram run the command they mapped
\* without asking.
OffMeansOff == msg.off => phase # "running"
==============================================================================
