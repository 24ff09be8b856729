# Verification of resenhazord2

TLA+ models of the resenhazord2 chat bot, the TLC runs that check them on small
instances, and theorems about them that TLAPS proves for every instance.
Paths are relative to the repository (`src/`).

## 1. The system

A WhatsApp **gateway** (TypeScript, `gateway/`) and a **bot** (Python, `bot/`)
talk through RabbitMQ. The gateway turns WhatsApp messages into command
envelopes on the queue `commands`; the bot runs the command and puts the answer
on `replies`; the gateway sends it. A command that fails in an external service
is parked in `commands.retry` (a TTL queue that dead-letters back to
`commands`) and after its last attempt in `commands.dlq`, which an operator
replays. Discord and Telegram run inside the bot. Redis keeps the idempotency
inbox, rate limits, token budgets and the group metadata cache; Postgres the
configuration and the agent's checkpoints; MongoDB the WhatsApp credentials.
Both processes are single-threaded event loops: what interleaves is the code
between two awaits.

| Component | State | Operations | What makes it correct | What is hard |
|---|---|---|---|---|
| Command delivery (`bot/adapters/broker/{command_consumer,delivery_guard,retry_router}.py`, `bot/infrastructure/{broker,command_inbox}.py`, `scripts/replay_dlq.py`) | queues, envelopes, running claims, exclusive lane, inbox, drain phase | deliver, claim, check the inbox, admit, enter the lane, run, retry, dead-letter, reply, mark, ack or reject; stop consuming, close; replay | no command vanishes unanswered; a keyed command is not answered twice without a fault; downloads never overlap; drain ends | duplicates, crashes between reply, mark and ack, lost confirms, Redis outages, redeploys |
| Gateway reply bridge (`gateway/src/bridge/{BrokerForwarder,CommandPublisher,InFlightCommands,ReplyConsumer}.ts`, `gateway/src/infra/RabbitBroker.ts`, `gateway/src/utils/{TypingIndicator,ReactMessage}.ts`) | in-flight registry, composing chats, unacked replies | react, start typing, publish, track; resolve, send, stop, ack | the registry leaks nothing, typing stops, replies are handled once | replies that overtake the confirm, sends that throw, restarts |
| Configuration store and cache (`bot/infrastructure/{cached_config_store,config_store}.py`, `bot/application/{config_service,config_editor}.py`) | rows in Postgres, a per-chat cache with a TTL | load, set policy, override | a stale entry has a cause, and goes away | a cache filled after an await, writes that raise after they committed |
| Gateway connection (`gateway/src/events/ConnectionUpdateEvent.ts`, `gateway/src/models/Resenhazord2.ts`, `gateway/src/infra/{ConnectionWatchdog,ConnectionState}.ts`, `gateway/index.ts`) | socket, reconnect timer and attempts, watchdog, marker file, forwarder | open, close, reconnect, reset, exit | a gateway that is alive gets open or exits; the marker file tells the truth | handlers that interleave at awaits, timers that overwrite each other |
| Agent conversation (`bot/domain/models/conversation.py`, `bot/infrastructure/llm/{agent_graph_nodes,graph_orchestrator}.py`, ...) | checkpointed conversation: phase, proposal, attempts, time | ask, propose, confirm, deny, fill a slot, expire | only a confirmed, current proposal is executed, once | two turns on one checkpoint, resume window, redelivered turns |
| Command handling (`bot/application/{command_handler,command_gate,register_commands}.py`, `bot/domain/commands/base.py`) and the handlers, routers and renderers of `bot/adapters/{discord,telegram}` | the message, its batch, its reply so far | gate, run, treat flags, retry, render, send | effects happen once per run, nobody who was refused nothing gets nothing, flags hold, what is offered can be shown | failures in the middle of a batch, retries and redeliveries after an effect, three routes with three sets of checks |
| Commands and content services (`bot/domain/commands`, `bot/domain/services`) | none of their own | 53 commands | what they change, say and raise, in which order | upstream services that fail half-way |
| Agent limits (`bot/infrastructure/{agent_rate_limiter,token_budget}.py`, `bot/application/throttled_agent.py`) | Redis counters and buckets | admit, debit, settle | spending stays within the budget plus what is in flight | debit after the call, clocks out of order, keys that expire |
| `wa_rpc` (`bot/adapters/whatsapp/broker_client.py`, `RabbitBroker.call`, `gateway/src/bridge/{WaRpcConsumer,WaActionConsumer}.ts`) | temporary queue and consumer per call | call, answer, time out | an answer reaches its caller or nobody | late answers, leaks on a timeout, handlers that throw |
| Platform supervisor (`bot/infrastructure/platform_supervisor.py`, `bot/adapters/http/app.py`) | connect tasks, shutdown list | start, retry, stop | what connected is shut down | cancel between connect and its record, a shutdown that raises |
| WhatsApp credentials (`gateway/src/auth/MongoDBAuthState.ts`) | versioned document | save, load | the newest snapshot wins | saves out of order, duplicate-key retry, saves of the socket before a reconnect |
| Mention lists (`bot/domain/services/mentions`) | one MongoDB document per chat | create, rename, delete, add, exit | names stay unique | two upserts, an exit that reads before it pulls |
| Birthdays (`bot/application/birthday_scheduler.py`) | the loop, claims in Redis | celebrate, claim, send, sleep | each chat is greeted once a day | claims before sends, restarts, midnights |
| Group events and counters (`bot/domain/services/steal_group.py`, `bot/infrastructure/idempotent_counter.py`) | a counter with its recent keys | welcome, make a colony | a group is counted once | redelivery, the upsert race, keys that fall out |
| Group metadata cache, message intake, LLM providers, observability | none that the rest depends on | filter, fetch, format | - | not modelled, see section 6 |

`PROJECT.json` lists every component with its sources, and under `hazards`
every place where the code is hard to test, with the properties that cover it.

## 2. The modules

| Module | What it is |
|---|---|
| `CommandDelivery` | broker queues and the bot's consumer, with crash, redeploy and replay |
| `MCCommandDelivery` | its bounds for TLC |
| `CommandDeliveryProofs` | its theorems |
| `ReplyBridge` | the gateway's forwarder, registry, typing indicator and reply consumer |
| `MCReplyBridge` | its bounds for TLC |
| `ReplyBridgeProofs` | its theorems |
| `ConfigCache` | one chat's configuration: rows, loads, `,config` calls and the cached entry |
| `MCConfigCache` | its bounds for TLC |
| `ConfigCacheProofs` | its theorems |
| `GatewayConnection` | `connection.update`, reconnect timer, watchdog and marker file |
| `MCGatewayConnection` | its bounds for TLC |
| `GatewayConnectionProofs` | its theorems |
| `AgentConversation` | the agent's conversation with one user: graph runs on a shared checkpoint |
| `MCAgentConversation` | its bounds for TLC |
| `AgentConversationProofs` | its theorems |
| `CommandOutcomes` | what running a command can amount to: the algebra the catalogue is written in |
| `GroupCommands`, `ImageCommands`, `TextCommands`, `FootballCommands` | the catalogue: every registered command as the set of its runs |
| `CommandRun` | one message from the gate to its answer, on three platforms |
| `MCCommandRun` | the module TLC runs it from |
| `CommandRunProofs` | theorems about the catalogue and the life of a message |
| `NewestSnapshot` | abstract: a register that only a newer snapshot replaces |
| `CredsStore` | the WhatsApp credentials in MongoDB, which implement it |
| `AgentLimits` | rate limiter and token budget |
| `BirthdayGreetings` | the birthday loop |
| `GroupColonies` | group events, colonies and the idempotent counter |
| `PlatformSupervisor` | connecting and stopping the platforms |
| `MentionLists` | a chat's mention lists |
| `Services` | the six of them as one specification, for one run |
| `ServicesProofs` | theorems about five of them, the refinement among them |
| `AgentLimitsProofs` | theorems about the sixth, the agent's limits |

`CommandDelivery` and `ReplyBridge` are the two ends of one protocol. Each
takes the other as its environment: `CommandDelivery!Publish` and
`PublishAgain` are the gateway, `ReplyBridge!BotAnswers` and `BotSkips` the bot.
The interface is small: an envelope accepted by the broker, a reply in the
replies queue, a duplicate that is skipped without one. `CommandRun` is what lies
inside `CommandDelivery`'s step `run`, and `AgentConversation` what decides, before that,
which command a text in words asks for.

### 2.1 CommandDelivery

One message copy in RabbitMQ is a tag `t`. `at[t]` names the queue that holds
it, `env[t]` its envelope, and `step[t]` the await at which the coroutine that
handles it is suspended:

| `step` | Code |
|---|---|
| `check` | `DeliveryGuard.already_answered`: the claim is taken, Redis is asked |
| `handle` | `CommandHandler.handle` before the command runs |
| `lane` | `_enter_lane` waits for `_exclusive_lane` |
| `run` | `Command.run` |
| `retry`, `dlq` | `RetryRouter.route` publishes the envelope to a parking queue |
| `reply`, `refuse` | `_publish_reply` publishes the answer |
| `mark` | `DeliveryGuard.mark_answered` |
| `ack`, `reject` | leaving `async with message.process()` |

A step of the model is what a coroutine does between two awaits. In particular
leaving `claim` and the exit stack that holds the lane happens without an await
and is one operator, `Release`. A delivery that raises is rejected without
requeue (`Reject`), which is aio-pika's default and drops it: `commands` has no
dead-letter exchange. A process that dies (`Crash`, `PoisonCrash`), and a
redeploy that gives up waiting (`DrainTimeout`, `CloseConsumer`), end every
coroutine, and RabbitMQ requeues what was unacked (`Die`). Losing the consume
connection is the same event as `Crash`: the client library cancels the tasks of
a closed channel, and the broker redelivers what was unacked.
The redeploy follows `stop_consuming` and `close`: first no new delivery, then
a grace period, then the publish connection is closed and only then the consume
connection. Between these two (`phase = "closing"`) a coroutine's publish fails.

Any number of copies in any order stands for RabbitMQ's FIFO with redeliveries.
A replayed dead letter (the envelope's `replayed`) bypasses claim and inbox, but
its answer is marked.

### 2.2 ReplyBridge

`fwd[f]` is the await at which the f-th call of `forward()` is suspended
(`react`, `typing`, `publish`, `confirm`, `stop`), `reply[r]` the r-th reply in
the broker with the number of messages already sent and whether `resolve` found
a registry entry (`known`). `inFlight` is `InFlightCommands.byId` and `typing` the set
of chats WhatsApp shows as composing. Two forwards may carry the same WhatsApp
message: the bot then answers one and skips the other (`BotSkips`), exactly
when the inbox or the claim of `CommandDelivery` says so.
`React` and the publish lie on either side of the `try` in the code: a react
that throws loses the forward, a publish that throws is caught and stops the
indicator. A presence update that fails is swallowed by `TypingIndicator`; a
send that fails is caught in `dispatch`, which acks.

### 2.3 ConfigCache

`db` is the chat's rows (`NoRow` when it has none), `cache` the entry of
`CachedConfigStore` for the chat. `load[r]` is a call of `load()`: after a
`Miss` it reads the chat row (`QueryChat`) and, in a second statement that
`selectinload` issues, the overrides (`QueryOverrides`), and `Fill` puts the
result into the cache after the await. `edit[w]` is a `,config` call, which
writes its settings one by one (`Commit`) and drops the entry after each
(`Invalidate`). A query, a write, or a commit whose answer is lost can raise.
Two variables exist for the properties only: `since[r]` holds the configurations
the chat had since load `r` queried it, and `causes` why the entry may be stale
although nobody is writing. `calls` bounds the number of `,config` calls.

### 2.4 GatewayConnection

`step[c]` is the await at which a connecting caller is suspended (`end` and
`close` in `cleanup`, `auth`, `socket` and `broker` in `connectToWhatsApp`); a
caller is the top level of `index.ts` or the callback of a reconnect timer,
which is `set` until it fires. `handler[h]` is a call of
`ConnectionUpdateEvent.run`, suspended while it writes or removes the marker
file (`write`, `unlink`) or about to go on after that (`opened`, `closed`).
`ref`, `reconnecting` and `attempts` are the static fields of the class,
`watchdog` its timer, `listening` whether the present socket has its listener,
and `reported` whether the handler was told that it is open. A socket reports
its opening and its close once at most. Reconnect delays are not modelled: a
timer that is set fires some time, in any order with everything else.
`handlerEvents` awaits only values, so it is one step with the end of
`connectBroker`, and `isConnecting` is never seen set by a second caller; that
is why it is no variable.

The handlers do interleave: when a connection closes before its marker is written, the
open handler's `reset()` may clear the reconnect that the close handler has
just scheduled. The gateway then waits for its watchdog, which is what `StallCovered`
promises and all that it can promise.

### 2.5 AgentConversation

`saved` is the LangGraph checkpoint of one user in one chat, `turn[t]` the
handling of message `t`: `conv` is the copy of the conversation its run loaded,
`outcome` what the graph decided, `step` the node it is at. A run loads the
checkpoint when it starts (`RouteInput`) and saves its own copy after every node
(`Decide`, `Conclude`), so two messages handled at once overwrite each other. A
proposal is named by the message whose answer made it. What goes wrong: Redis
fails and the graph runs again without memory (`RunStateless`), the throttle
refuses the turn (`Throttle`), the command fails and the message is retried
(`RetryCommand`), the bot stops before the ack (`Redeliver`). `alone`, `again` and `after`
exist for the properties: whether the message ever shared its handling with another, whether
it was handled twice, and what the user had been shown when writing it.

### 2.6 CommandOutcomes, the catalogue and CommandRun

A command is the set of its runs. A run lists what others can see of it, in
order (a message put into the reply, an effect on a store or a group, a use of
the WhatsApp port, media that came along), and how it ends: `on` (it
goes on), `done` (it returned its reply), `none` (a helper returned nothing) or an error. Four
combinators write them down the way the Python reads:

| Form | Python |
|---|---|
| `P & Q` | `P`, then `Q` if `P` went on |
| `P \| Q` | `if ...: P else: Q` |
| `Catch(P, E, H)` | `try: P except E: H` |
| `OrElse(P, Q)` | `P or Q`, where `P` may return `None` |

An HTTP request (`Fetch`) goes on, fails with an `httpx` error or answers
something that cannot be read; a write (`Write`) is refused, done, or done with its answer lost.
Upstream clients (`FipeClient`, `OpggClient`, `EHentaiScraper`, ...) are
operators of their own, and each of the 53 commands is one definition, in the module of
its kind, with its `CommandConfig` as a set of marks. What a command computes is left out: which
picture, which caption, which of a command's branches a text selects.

`CommandRun` takes a message through all of it. `Admit` and `Reject` are the gate of its
route: the handler of Discord and of Telegram, the consumer of WhatsApp, or the
agents' routers, which have no gate. `BeginRun` picks one of the command's runs and
`Step` performs its events; a batch runs it several times. `EndRun` treats the flags,
`Retry` is `RetryRouter` (WhatsApp only), `Apologise` the error texts. On
WhatsApp the reply goes out in one publication, elsewhere message by message as
`Rendered` says, and any of these sends may fail. `Die` is a crash: RabbitMQ brings the
message back, Discord and Telegram do not.

### 2.7 Services

`CredsStore`, `AgentLimits`, `BirthdayGreetings`, `GroupColonies`, `PlatformSupervisor`
and `MentionLists` share no state with each other. `Services` instantiates all six and follows one
of them per behaviour (`part`), so that one run checks them without the product
of their states. The awaits are in the data: a creds save is at its update, insert or
retry (`saves`), a turn at its check, call or debit (`turn`), a colony at
`worker[w].step`, a platform's task at `task[p]`, an edit of a mention list at
`edits`. Some variables exist for the properties only: `late` (how late the
clocks were that met no bucket), `excused` and `redisDown`, `counted`, `forgotten`, `repeated`
and `raced`, `halfOpen` and `raised`.

`NewestSnapshot` is what `saveCreds` promises in its comment; `CredsStore` implements it under
`kept <- stored`, `pending <- {s.snapshot : s \in saves}`.

## 3. What is checked

TLC runs (`tlc -config X.cfg M`); the state counts are distinct states.

| Run | Bounds | Properties | States |
|---|---|---|---|
| `delivery_safety` | 2 commands, both exclusive, one without key and poisonous; 4 copies; prefetch 2; any two kinds of fault, once each | `TypeOK`, `LaneSafe`, `ClaimsSafe`, `InboxSound`, `Accounted`, `AnswersBounded` | 679k |
| `delivery_live` | 1 command, 5 copies, a crash, a redeploy and a drain timeout | `EveryCommandSettled` | 546k |
| `delivery_drain` | 2 downloads, 4 copies, a redeploy | `DrainEnds` | 69k |
| `bridge` | 2 forwards of one message, 2 replies, any two faults | `TypeOK`, `RegistryExplained`, `TypingExplained`, `SendsBounded`, `RepliesHandled` | 292k |
| `config` | 2 loads, 2 `,config` calls on 2 commands and the policy, 1 fault | `TypeOK`, `StaleExplained`, `TornNeedsTwoWrites`, `EventuallyFresh` | 705k |
| `connection` | 2 timers, 3 handlers, 5 attempts (the code's), any number of opens, closes, kills and restarts | `TypeOK`, `StallCovered`, `OneReconnect`, `AdapterReady`, `StallEnds` | 23k |
| `agent` | 3 messages, 2 handled at once, 1 fault, 1 question in a row, a window that ends with the tick | `TypeOK`, `YesRunsWhatWasSeen`, `ProposalRunsOnce`, `ConfirmedInTime`, `DeniedNeverRuns` | 788k |
| `commands` | all 53 commands, 3 platforms, both routes, every flag, batches of 2, 3 attempts (the code's), 1 crash | `TypeOK`, `EffectsOncePerLife`, `SilenceMeansDone`, `FlagsHold`, `OfferedMeansUsable`, `RetryRepeatsNothing`, `Settles` | 75k |
| `services` | see below | `KeepsNewest`, `SpendingBounded`, `GreetedOnce`, `ColoniesCounted`, `StopClosesAll`, `NamesUnique` | 980k |

Three more runs are refuted and stand in section 4.

- `LaneSafe`: exclusive commands (`,dl`) overlap neither in their run nor in the
  publish of their reply; no path leaks the lane, and only exclusive commands
  wait for it.
- `ClaimsSafe`: `DeliveryGuard._running` is exactly the set of commands whose
  delivery is under way, and no keyed command has two.
- `InboxSound`: a key in the inbox stands for an answered command, so the inbox
  never makes the bot skip an unanswered one.
- `Accounted`: until an accepted command is answered, or was rejected after a
  failed publish, a copy of it is still on its way.
- `AnswersBounded`: each crash, drain timeout, Redis outage or failed publish
  costs a keyed command at most one extra answer; duplicates, retries and
  graceful redeploys cost none.
- `EveryCommandSettled`, `DrainEnds`: the liveness of both.
- `RegistryExplained`: a registry entry waits for the bot or for a queued reply,
  except for the two leaks of section 4.
- `TypingExplained`: while presence updates and sends succeed, a chat composes
  only for a command on its way.
- `SendsBounded`: a reply is sent again only after a restart.
- `RepliesHandled`: every reply is handled and acked.
- `StaleExplained`: an entry that differs from the database is about to be dropped, or
  stems from a load that overlapped a write, a commit whose answer was lost, or
  an edit made straight in Postgres.
- `TornNeedsTwoWrites`: the two statements of a load mix two configurations only
  if the chat went through three of them meanwhile.
- `EventuallyFresh`: once nobody writes any more, no stale entry survives its hour.
- `StallCovered`, `StallEnds`: a gateway that is not connected has its watchdog running,
  or a close handler about to start it, and so connects, exits or waits to be paired.
- `OneReconnect`: close handlers, reconnect timers and connections in the making
  exclude each other, and a socket being replaced reports to nobody.
- `AdapterReady`: listeners and the forwarder never outlive the socket and its adapter.
- `YesRunsWhatWasSeen`: a "yes" runs the proposal its writer was looking at, as long as the "yes",
  the proposing message and the one answered last were each handled once, alone and with memory.
- `ProposalRunsOnce`: a proposal runs again only if the "yes" that ran it first shared its
  handling with another message; after a "yes" handled alone no redelivery, retry or later "yes" does.
- `ConfirmedInTime`: whichever run wrote the checkpoint last, a confirmed proposal is
  younger than the resume window.
- `DeniedNeverRuns`: a "yes" does not run what an earlier "no" denied, unless one of them shared its handling.
- `EffectsOncePerLife`: the effects that cannot be repeated safely (adding or banning
  at random, uploading a file, leaving a list by position) happen at most once
  per run of the batch and per redelivery, whichever step fails.
- `RetryRepeatsNothing`: no command raises an `ExternalServiceError`, the one error that is
  tried again, after it changed something.
- `SilenceMeansDone`: nobody is left without a word unless something was done for
  them, `,ban` and a rate-limited `,animal` excepted.
- `FlagsHold`: with `dm` no media of a reply reaches the group, and pictures stay
  view-once unless `show` asked otherwise.
- `OfferedMeansUsable`: what Discord and Telegram offer needs nothing of WhatsApp
  and has a rendering there.
- `Settles`: a message is answered or lost; no mix of retries goes on for ever.
- `KeepsNewest`: the refinement of 2.7.
- `SpendingBounded`: beyond the budget a user or a group spends only what is under way at once, one
  call per failure of Redis, and a refill per tick by which a clock was late.
- `GreetedOnce`: a chat is greeted twice for a day only if Redis did not answer
  a claim, and missed only if the core was down at the day's end, lost the greeting
  after its claim, or celebrated past midnight.
- `ColoniesCounted`: a group counts once while its key is remembered, and two
  groups share a colony number only if one was taken for counted already.
- `StopClosesAll`: a stop in which no shutdown raises leaves nothing open but
  what failed attempts of Telegram left half-open.
- `NamesUnique`: no two mention lists of a chat have one name.

**Bounds.** Two commands are what the lane, the claims and the drain distinguish
(one in the lane, one waiting); four copies allow two commands with a retry or
dead letter each, or one command with a redelivery, a duplicate and a parked
copy. Prefetch 2 and two attempts make the limit reachable. Each kind of fault
happens once, and two kinds together (`TwoFaults`, `MaxFaults`): the properties
count faults, and every action is still reached. `AnswerCap` saturates the
counter of answers above every bound the property can reach. For the
configuration two loads and two calls show every overlap of a load with a
write and of two writes, and two commands with the policy a mixed load. Two
timer handles and three handlers are one more than `OneReconnect` allows and than
one socket's events need.

For the agent three messages are a proposal, its answer and one that disturbs either;
two at once are what the last writer needs. In `commands` the message is chosen once, so its state is
one message: a batch of 2 stands for the 5 the code allows, because a run
leaves behind only its part of the reply. In `services`: 3 saves on 2 sockets; one sender with a
budget and one owner, a group, 3 turns, 2 at once, calls of 1 or 2 tokens
against buckets of 1, 2 ticks, 1 failure of Redis; 2 chats over 3 days with 3 things going
wrong; 2 groups, 2 deliveries at once, a memory of 1 key (the code's is 50), 1
crash; the 3 platforms with 2 failed attempts; 4 edits of 2 lists. Each bound is past
the first case in which the property would fail without the mechanism it
checks, which the mutants in `PROJECT.json` show.

Copies, and the messages of the agent, are interchangeable, so those safety runs use symmetry;
liveness runs do not. `CHECK_DEADLOCK FALSE` except for `connection` and
`commands`: the other systems idle when nobody sends anything.

**Fairness.** Weak fairness on each coroutine: the event loop resumes whatever
is ready, and awaits end, because HTTP calls, RPCs and downloads have timeouts.
Weak fairness of the broker (delivery to a consumer with room, TTL expiry) and of
the restart (`restart: unless-stopped`). Nothing is assumed of users, the
operator or of faults, which are also bounded. In `ConfigCache` an hour passes
(`Expire`) besides. `GatewayConnection` assumes the least: the watchdog expires,
Docker restarts, and a file removal returns; WhatsApp, the stores and the reconnect
timers may stay silent forever. In `CommandRun` the handling of a message that
can go on goes on (`Handle`).

## 4. Where the code and its documents disagree

Each of these is a run TLC refutes, and a finding in `PROJECT.json`.

- `delivery_no_lost_command` (`NoLostCommand`): a failed publish rejects the
  delivery without requeue, where `docs/prd-event-driven-gateway.md:253` says
  the message stays unacked. `close()` opens a second route: it closes the
  publish connection first, so a reply that outlasted the drain fails too.
- `agent_rerun` (`RerunRoutesAlike`): `docs/adr/0008-conversation-state-and-resume.md:62`
  says that running a turn again yields the same routing. A confirmed proposal is
  forgotten before its command runs, so a retried or redelivered "yes" finds an idle
  conversation and goes to the language model as a request of its own.
- `commands_gate` (`OffMeansOff`): `docs/prd-per-group-config.md:119` says that all
  three platform paths honour what a chat has switched off. The agents of Discord
  and Telegram run what they mapped without asking the gate.

Three more show in the models without a run of their own: a skipped duplicate is
acked without the terminal reply `docs/prd-event-driven-gateway.md:118` promises
(`BotSkips`), a send that throws skips `TypingIndicator.stop`
(`ReplyConsumer.ts:43`), which is why `TypingExplained` excludes failing sends,
and a failed publish is logged and dropped (`PublishFails` in `ReplyBridge`),
though `docs/prd-event-driven-gateway.md:246` describes a retry.

**Known limits.** The properties above are shaped by what the code does not
prevent. No document promises otherwise, so these are no findings:

- Downloads waiting for the lane hold prefetch slots; four of them stall every chat.
- Attempts are counted for an `ExternalServiceError` only, so a command that kills
  the process is redelivered without end.
- A reply that overtakes the confirm of its command leaves the typing indicator and a
  registry entry behind.
- A load that overlaps a `,config` call puts the old configuration back into the
  cache for up to an hour.
- A gateway killed while connected starts with the marker file of its
  predecessor, and a slow write of the marker can land after its removal.
- Versions of creds are counted per socket: a late save of the socket before can
  carry the version of a newer one, whose snapshot is then ignored.
- A confirming "yes" may meet an older proposal when the answer in between was made without
  memory or refused by the throttle.
- A celebration that runs past midnight skips the next day; a greeting that was
  claimed and not sent is lost.
- A repeated or redelivered promotion takes the count of the moment for its colony's number, and so
  does the loser of the race that creates the counter.
- A Telegram `start()` that fails half-way leaves a bot open; a shutdown that raises skips those after it.
- Leaving a mention list pulls by name from whatever has that name by then.
- A Telegram typing refresh that fails cancels the command it decorates.
- A redelivery repeats `,ban` and `,add` at random, a `,drive` upload and leaving a list by
  position, which ADR 0001 does not list among the exceptions.

## 5. What is proved

TLAPS checks these for every value of the constants that satisfies the modules'
assumptions: any number of commands, copies, forwards, loads, timers, messages, saves,
groups, lists, chats, platforms and faults. The assumptions are named in the
modules that declare the constants (the assumptions of the six services in `Services`)
and say no more than that sets of actors whose members are counted are finite, that bounds are
natural numbers, that a value which stands for none (`NoChat`, `NoTurn`, `NoRow`, ...) is no member of
the set beside it and `Group` no user, and that capacities, rates, windows, attempts and the
counter's memory are not zero, as the settings of the code have them.

| Module | Theorem | Says |
|---|---|---|
| `CommandDeliveryProofs` | `TypeCorrect` | `Spec => []TypeOK` |
| | `LaneExclusive` | `Spec => []LaneSafe` |
| | `ClaimsExclusive` | `Spec => []ClaimsSafe` |
| | `InboxOnlyAnswered` | `Spec => []InboxSound` |
| | `NothingVanishes` | `Spec => []Accounted` |
| | `AnswersStayBounded` | `Spec => []AnswersBounded` |
| `ReplyBridgeProofs` | `TypeCorrect` | `Spec => []TypeOK` |
| | `RegistrySound` | `Spec => []RegistryExplained` |
| | `TypingSound` | `Spec => []TypingExplained` |
| | `SendsStayBounded` | `Spec => []SendsBounded` |
| `ConfigCacheProofs` | `TypeCorrect` | `Spec => []TypeOK` |
| | `StaleSound` | `Spec => []StaleExplained` |
| | `TornTakesTwoWrites` | `Spec => []TornNeedsTwoWrites` |
| `GatewayConnectionProofs` | `TypeCorrect` | `Spec => []TypeOK` |
| | `ReconnectsAlone` | `Spec => []OneReconnect` |
| | `StallsCovered` | `Spec => []StallCovered` |
| | `AdapterSet` | `Spec => []AdapterReady` |
| `AgentConversationProofs` | `TypeCorrect` | `Spec => []TypeOK` |
| | `YesRunsTheSeen` | `Spec => []YesRunsWhatWasSeen` |
| | `RunsOnce` | `Spec => []ProposalRunsOnce` |
| | `ConfirmsInTime` | `Spec => []ConfirmedInTime` |
| | `DenialHolds` | `Spec => []DeniedNeverRuns` |
| `CommandRunProofs` | `TypeCorrect` | `Spec => []TypeOK` |
| | `RetriesRepeatNothing` | `Spec => RetryRepeatsNothing`, an action property |
| | `EffectsHappenOnce` | `Spec => []EffectsOncePerLife` |
| | `NobodyLeftInSilence` | `Spec => []SilenceMeansDone` |
| | `FlagsAreKept` | `Spec => []FlagsHold` |
| | `OffersAreUsable` | `Spec => []OfferedMeansUsable` |
| `ServicesProofs` | `CredsTyped`, `CredsKeepNewest` | types; `Spec => KeepsNewest`: `CredsStore` implements `NewestSnapshot` |
| | `ColoniesTyped`, `ColoniesNumbered` | types; `Spec => []ColoniesCounted` |
| | `MentionsTyped`, `NamesStayApart` | types; `Spec => []NamesUnique` |
| | `GreetingsTyped`, `GreetingsSentOnce` | types; `Spec => []GreetedOnce` |
| | `SupervisorTyped`, `SupervisorStopsClean` | types; `Spec => []StopClosesAll` |
| `AgentLimitsProofs` | `LimitsTyped`, `SpendingStaysBounded` | types; `Spec => []SpendingBounded` |

**Delivery.** `TypeOK` carries the fact the other proofs lean on: a copy is unacked exactly
while a coroutine handles it. `LaneSafe` and `InboxSound` are
inductive together with it. `ClaimsSafe` is proved from `ClaimsInd`, the same
statement indexed by command, which the provers handle better. `Accounted` is
the delicate one: when a delivery is skipped because its key is claimed, the
claim's owner must still lead to an answer (from `ClaimsInd`), and when it is
skipped because its key is in the inbox, the command must have been answered
(from `InboxSound`), so its step uses both invariants; the lemma `CarriedOn`
says that a step which keeps a command's other copies keeps the command
accounted for. `AnswersBounded` follows from `BoundedInd`, which says when one more
answer is already paid for: a command that a coroutine still works on, or whose key is neither
in the inbox nor about to be marked there, has had no more answers than there were faults
(`Allowance`). Between the two closes of a shutdown the timeout pays in advance for the
one answer that may get out without a confirm, so the allowance is one less there.

**Bridge.** The type invariant is strengthened to `TypeInd`
(a reply's command is published), and `RegistryExplained` to `RegistryInd`,
which also explains the forwards that are published but not tracked yet;
`TypingExplained` is inductive together with the types. `SendsBounded` bounds sends that were made; it is inductive only together with those
still owed (`Paid`), which are counted as the cells of a table with a row for each queued reply: a
send moves one from owed to made, an answer adds a row, a crash makes every
queued reply owe its whole length again, which the crash pays for.

**Configuration and connection.** In
`ConfigCache` both results rest on `LoadInd`: a load knows the present
configuration; if it knows two, they differ in one setting, so that whatever it
read of each is one of the two. In `GatewayConnection` all three come from
`ConnInd`: a socket that can still report its close has no reconnect beside it,
so the one its close starts is alone, and whoever is alone left the watchdog
armed.

**Agent.** All four properties come from one invariant. `Handled` ties a run's outcome to
the conversation it holds; `Apart` says that a message which is alone has no other in flight beside
it. A proposal that some run or the checkpoint holds, or that was spent, is one its message has
already numbered (`Numbered`), so it is not made a second time; one that a message answered while alone is
held nowhere any more (`Forgotten`), which is why no later "yes" or redelivery
finds it. `Looked` says that what is pending was seen last, unless a message on the way to it was disturbed.

**Commands.** The catalogue is proved first, by the way its 53 definitions are
put together: each combinator of `CommandOutcomes` keeps a *discipline* over a vocabulary of events
(a run that ends well told or changed something; one that may be retried has no effect
in its vocabulary; a run has one unrepeatable effect at most), and every command turns out to be `Lawful`
(`CatalogueLawful`). The life of a message is then an invariant of seven parts in which
the command is any lawful one: what is still to come was begun from one of its runs
(`FromItsRuns`), what is still allowed counts against what was done (`Allowed`), and what
was said is in order for the phase it is in (`ToldOrDone`, `Shaped`).

**Services.** A step of `Services` is a step of one of the six or leaves it alone, so each result holds of the
composition. The refinement shows that every step of a save is an `Offer`, a `Keep`, a `Lose` or a
stutter of `NewestSnapshot`; a save that ends must take its snapshot, and nothing else,
off `pending`, so the proof needs `SnapshotsNumbered`, that no two saves under way carry
the same snapshot, and that a document which is not there was never written.
In the colonies, `Counts` says that the count is what the counter remembers and what it
forgot, and `Held` follows a number from the counter to the subject of a group, so that two
groups with one number lead back to one that was taken for counted before. For the mention lists the
proof is about a deletion, which moves the lists behind it up: `Ranks` shows that what is left
is a sequence again, in the same order. For the greetings, `Once` says that while Redis
answers, what was or is being sent for a day was claimed; `ClaimsKept` that a claim stands for a greeting
sent, being sent or excused, that a celebration has a chat still before it or has settled it,
and that a loop asleep has settled the day it sleeps through. For the supervisor, `Tallied`
accounts for every open connection of a platform: it is half-open, or its attempt
holds it, or its shutdown is kept, exactly once.

**Limits.** `SpendingBounded` says nothing of what was not settled yet, so the proof keeps a
`Ledger` for each bucket. `Level`: what the bucket holds and what was settled there are
never more than it held and was refilled, and its key outlives the time at which it would be full again,
so that a key which expires loses nothing. `Staked`: what was settled
and what the turns under way may still spend are less than the bound; a turn puts the
price of a call at stake when it passes the check, which it does only where the bucket
holds something, and owes what the call cost until the debit. The sums over turns are cardinalities
of tables (`Total`), as the sends of the bridge are.

**Only model-checked**: the six liveness properties, `EveryCommandSettled`, `DrainEnds`, `RepliesHandled`,
`EventuallyFresh`, `StallEnds` and `Settles` (the prover handles neither fairness
nor ENABLED). Every invariant and every action property that a run checks is proved.

## 6. Not modelled

- The gateway's group metadata cache: Baileys alone consults it, to
  address what it sends; a stale entry changes no state of this system.
- Message intake (`MessageUpsertEvent`, `CommandParser`, ...): stateless filters in front
  of `BrokerForwarder.forward`.
- Matching and parsing a text (`bot/domain/parsers`), choosing a command from examples
  and the language model: which command a message asks for is a choice in
  `CommandRun` and `AgentConversation`.
- The LLM providers, the prompt registry and the retriever behind their ports, and
  logs, metrics and traces.
- The signal keys of the credentials, one document each without a version.
- The temporary queues of `RabbitBroker.call` and `wa_rpc`: callers see an answer or a
  timeout; nothing reads a queue whose caller has given up.
- What commands compute: captions, images, translations, draws. `data/` holds tables.
- Malformed envelopes (answered by a log entry and an ack), the drop-head limits of
  `observability/rabbitmq/policies.sh`, the one-day TTL of the inbox (a missing
  key is what a failed check already shows), the contents of messages and the
  WhatsApp, Redis and RabbitMQ servers beyond what the code observes of them.
  `REDIS_URL` is assumed to be set; without it the inbox is empty, which is
  `CheckInboxFailsOpen` forever.
- Birthdays: every chat has one every day; the calendar's February 29 is left out.
- The access tokens that `HearthstoneCommand` and `IgdbSource` keep: a request with
  one that expired is a failing `Fetch`.

## 7. Plan

1. **Done**: `CommandDelivery`, `ReplyBridge`, `ConfigCache`, `GatewayConnection`.
2. **Done**: `AgentConversation`; `CommandRun` with the catalogue; the six services of `Services`.
3. **Done**: proofs of every invariant and action property the runs check, and of the refinement.
4. Left to model: `shutdown()` of the gateway interleaved with a reconnect, which
   `GatewayConnection` shortens to a process that ends; the group metadata cache; the
   parser's argument grammar, as operators checked against a reference.
5. Left to prove: that `CommandDelivery` and `ReplyBridge` implement one abstract
   specification of a command that is answered; liveness stays with TLC.
