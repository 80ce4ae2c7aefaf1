# Verification of the OpenChat bots

TLA+ models, model-checking runs and machine-checked proofs for the bots and
the bot SDKs of this repository (`rs/`, `motoko/`, `ts/`).

## 1. The system

A bot is a server that OpenChat calls. A command typed in a chat reaches it as
an HTTP request with a signed token; the bot checks the token and the
arguments, runs the command's handler and answers. A bot that is also
*autonomous* keeps API keys, one per chat or community, and uses them to send
messages at moments of its own choosing. The repository holds three SDKs for
writing such bots and a number of example bots; the examples are where the
state is.

| Component | Source | State | Operations | Hard parts |
|---|---|---|---|---|
| Reminder bot | `rs/canister/examples/reminder` | reminders, per-chat index, queue of occurrences, `TIMER_ID`, API keys | `/remind_at`, `/remind_recurring`, `/delete_reminder`, `/list_reminders`, `sync_api_key`, the timer job `run`, `send_reminder`, upgrade | replies that arrive after other commands, timers lost by upgrades, three indexes, reused ids |
| API key registry | `rs/sdk/src/api_key_registry.rs`, `motoko/src/apiKeyRegistry.mo`, `ts/packages/library/src/domain/scopeMap.ts` | one key per scope | insert, lookup with required permissions | three implementations that should agree |
| Command dispatch | `rs/sdk/src/api/command`, `motoko/src/commandHandler.mo`, the HTTP routers | none | token check, argument check, dispatch | two implementations of one argument check |
| TypeScript client | `ts/packages/library/src` (`clients`, `services`, `mapping`, `domain`, `typebox`) | the draft being built, the call under way | send a message, create and delete a channel, read a chat's details and events | lost replies, retries, two hundred conversions between what OpenChat and what a bot calls a thing, permissions as bit masks |
| Other clients | `rs/sdk/src/oc_api`, `motoko/src/client` | the message being built | send | |
| Discord relay | `rs/offchain/examples/discord` | relay links in memory and in a file, a bounded channel | `/connect`, `/disconnect`, `/status`, a Discord message, its relay, persist and restore | tasks that share links across awaits, crashes |
| Ping bot (Motoko) | `motoko/examples/ping_bot` | subscriptions with timers, keys | `/start`, `/stop`, tick, `sync_api_key`, upgrade | ticks that race a cancellation, key rotation |
| Ping (TypeScript) | `ts/packages/example/src/handlers` | subscriptions by key, keys, one interval | subscribe, unsubscribe, tick, refusal | key rotation and revocation |
| Example server (TypeScript) | `ts/packages/example/src` (`app.ts`, `middleware`, `handlers`), `ts/packages/library/src/services/data` | requests of the minute, what each handler waits for, uploads, calls of `sendMessage` | thirteen commands, three actions, a file stored in chunks | placeholders and answers that overtake each other, rejected promises that end the process, partial uploads |
| Greet bot | `rs/canister/examples/greet` | jokes | load jokes, `/joke` | ids that must be contiguous |
| Echo, dice, llama, hello | | none | | |

Components interact as follows. Command dispatch calls a bot's handlers; the
handlers read and change the bot's state within one message, and hand the
message to send to a client. `sync_api_key` fills the registry, which every
autonomous action consults. A client call is asynchronous: its reply resumes
the caller in a later message, with whatever state there is then.

What makes each component correct:

* Reminder bot: every live reminder is reachable under its chat and waits
  exactly once in the queue; a timer is armed whenever something waits, early
  enough; nothing is sent early or twice; limits hold; everything due is sent;
  no reminder disappears except by its end, its deletion or the refusal of its
  own message.
* Registry: a lookup finds a key exactly if one of the scope or, for a channel,
  of its community grants what is required, in all three languages.
* Dispatch: a handler only sees arguments that satisfy its definition.
* Discord relay: a channel is relayed exactly while it is connected, also after
  a restart; no message is lost in silence.
* Ping bots: no ping after `/stop`, at most 100 per `/start`, subscriptions
  survive upgrades, a revoked key is not used for ever, pings reach the chat
  that subscribed.
* TypeScript client: OpenChat is never asked for what the token does not grant,
  what is sent parses there, what is read is what was sent, an answer tells what
  happened, an update is made at most once, and every call ends.
* Example server: every request is answered, the message that is shown is the
  one that is sent (as far as the token allows it), an answer is not replaced by its own placeholder, a file is
  complete before a message refers to it, and a failure of one command does not
  end the others.

## 2. Modules

| Module | Models |
|---|---|
| `Maps` | the maps of the three languages as functions: `EmptyMap`, `Put`, `Without`, `IsMap` |
| `ApiKeys` | the Rust API key registry and its lookup |
| `ReminderBot` | the reminder bot: state, one action per message handler and per turn of the job's loop, invariants, action and liveness properties |
| `ReminderService` | what a reminder service promises, without indexes, queue, timers and upgrades |
| `ReminderRefinement` | the refinement mapping from the bot to the service |
| `MCReminderBot` | the instances that TLC checks |
| `DiscordRelay` | the Discord bot: links in memory and on disk, channel, tasks step by step, faults; its properties |
| `MessagePipe` | what the bot promises of the messages it accepts |
| `DiscordRelayRefinement` | the mapping from the Discord bot to the pipe |
| `MCDiscordRelay` | the instances that TLC checks |
| `MapTheorems` | lemmas on the maps |
| `ReminderBotProofs` | type correctness, the inductive invariant, the properties that follow, the limits, what leaves the queue, and the refinement of the service |
| `DiscordRelayProofs` | type correctness and the inductive invariant of the Discord bot, and its refinement of the pipe |
| `ActionScopes` | identifiers, the scopes of commands and of keys, their texts, the lookup of a key |
| `BotPermissions` | permissions, their bit masks, the test for one |
| `PingSubscriptions` | the ping example of the TypeScript SDK, on the two modules before |
| `MCPing` | the instance that TLC checks |
| `PingProofs` | its types, its inductive invariant, and three of its properties |
| `WireTypes` | the schemas of the calls the client makes (`typebox.ts`) as sets |
| `DomainTypes` | the types that the client answers with, as sets |
| `Drafts` | messages and channels as a bot fills them in |
| `Mapping` | the conversions between drafts, wire types and domain types |
| `BotClient` | the calls of the client and OpenChat's side of them |
| `MCBotClient` | an instance with every kind of content, event, gate and answer |
| `MappingProofs` | what each conversion makes of any value that satisfies its schema, and that filling in and reading back cancel |
| `BotClientProofs` | what is proved of the client |
| `FileUpload` | the upload of a file in chunks |
| `BotCommands` | the example server: middleware, commands, actions; composes `Drafts`, `BotPermissions` and `FileUpload` |
| `MCBotCommands` | the instance that TLC checks |
| `BotCommandsProofs` | types, files and answers of the example server |
| `BotCommandsGuarantees` | what its handlers show and send, and by what the process ends |

### How `ReminderBot` corresponds to the code

`reminders`, `perChat`, `ordered` and `nextId` are the four fields of
`Reminders` (`model/reminders.rs`), `apiKeys` the registry, `timerId` the
thread-local `TIMER_ID`, and `timers` the timers the platform holds. A timer is
named by its deadline; this loses nothing, because `JobArmed` shows that there
are never two. `inflight` holds, for each `send_reminder` that awaits its
reply, what its future captured (the chat and the chat reminder id, not the
global id). `sent` is a history variable.

A canister executes one message at a time and a message that traps leaves no
trace, so each handler is one action: `RemindAt`, `RemindRecurring`,
`RejectRecurring` (the error path of `add`), `Delete`, `SyncApiKey`, the two
replies of `send_reminder`, and `Upgrade`. `run` is one message as well, but
its loop takes a step per reminder (`RunStart`, `RunPop`, `RunEnd`); while it
is `running` no other action is enabled and the clock stands still. Handlers
that change nothing (`/list_reminders`, the metrics, a command refused before
it touches the state) are no steps.

`RunEnd` has two cases. The loop ends when nothing is due; and it ends when the
occurrence just popped belongs to a deleted reminder, since
`self.reminders.get_mut(&global_id)?` makes `pop_next_due_reminder` return
`None`. Others may be due behind it. `start_job_if_required`, called right
after, arms a timer for them that fires at once: `DueLeavesQueue` says that this
suffices.

Data is abstracted as follows. A schedule is the set of its instants, the
empty set being `RemindWhen::Once`; the cron syntax and time zones decide which
instants, nothing else. `NotTooFrequent` looks, as the code does, at the next
two instants only. A message's text is left out; a key is the set of
permissions it grants. A text that is no schedule and a schedule that is
refused have the same effect on the state and are one action.

An upgrade serialises `State` and loses the thread-local variable, the timers
and the futures that wait. It may happen between any two messages. (A
deployment that stops the canister first lets the replies arrive before; that
order is among those explored.)

### How `DiscordRelay` corresponds to the code

The bot is one process whose tasks run on several threads. `links` is
`BotState.relay_links`, `queue` the `tokio` channel, `file` the state file.
Each task has a place `at` where it awaits or is about to touch the file, and
what its future holds there: the Discord `message` it handles, the `clone` of
the link that `get_relay_link` returned, the `snapshot` that
`prepare_store_data` serialised. `Handlers` are the tasks in which `serenity`
runs the event handlers, `Relay` is the task spawned by `start_openchat_bot`.

| Place | Code |
|---|---|
| `push` | `data.tx.send(...).await` (`discord/events.rs:41`) |
| `flag` | after a failed `send`, between reading the link and writing it back (47-55) |
| `call` | `execute_async().await` of the relay task (`openchat/events.rs:65-70`) |
| `save`, `open`, `write` | before `prepare_store_data`, `File::create` and `write_all` in `persist` |
| `dead` | the relay task has returned an error, its receiver is dropped |

The lock on the links is held for single map operations only, which are
therefore atomic. The file is not protected by anything: `Write` of a task
replaces a truncated file by its snapshot, but if another task has written
since, it may leave the end of the longer text behind (`Garbled`). A file that
is `Empty` or `Garbled` cannot be decoded and `restore` returns an error, so
that the bot does not start. `SaveFails` is an error of any operation of
`persist`; it ends the event's task, or the relay task (`?` at
`openchat/events.rs:85`).

A link is reduced to its key and to whether it has an error; the key stands for
the channel key derived from it, too. A response of OpenChat is a success, a
refusal or an error of the call. Messages without content are those that
`Receive` drops although their channel is linked. `given`, `missed`, `wanted`
and `crossed` are history variables.

### How `PingSubscriptions` corresponds to the code

`subscriptions` is the `Map` of `handlers/ping.ts` from the text of a key to the
texts of the scopes subscribed under it, `apiKeys` the `ActionScopeToApiKeyMap`,
`calls` the pings that await OpenChat. `issued` and `valid` are OpenChat's side;
`synced`, `wanted` and `shaken` are history: the keys the bot was given, what
the last command on each scope asked for, and the scopes whose key has changed
since. Node runs a handler to its next `await`, so each of `SyncApiKey`,
`Subscribe`, `Unsubscribe`, `Tick` and the two answers is one action.
`BestMatch` is `#bestMatch`: the exact key wins whatever it grants, and only a
channel falls back on its community's key. `AnswerRefused` keeps the order of
`ping.ts:45-46`: the key is deleted, and then looked up.

### How the TypeScript client is modelled

A call goes through six conversions, each a definition of its own:

| Step | Code | Model |
|---|---|---|
| the bot fills in a draft | `domain/message.ts`, `domain/channel.ts` | `Drafts` |
| the client checks the token's permissions | `bot_client.ts:120-148`, `domain/permissions.ts` | `Permitted`, `BotPermissions` |
| the draft becomes arguments | `toInputArgs`, `mapping/index.ts` (`api...`) | `ArgsOf`, `Mapping` |
| the arguments are parsed by their schema and packed | `msgpack.ts:161-171` | `Parses`, `WireTypes` |
| OpenChat does it, and replies | | `ExecuteSend`, `ExecuteCreate`, `ExecuteDelete`, `Read`, `Refuse` (external) |
| the reply is parsed and mapped | `msgpack.ts:173-190`, `mapping/index.ts` | `AnswerOf`, `Mapping`, `DomainTypes` |

`calls[c]` is the call that caller `c` has under way: how often it was tried,
how often OpenChat has done it, its reply, and what the caller got. `Deliver`,
`Fail` and `Retry` are the asynchronous steps. A call may fail before OpenChat
has got it or after it has done it; `Failed` decides with `base.ts:31-68`
whether a query is tried again. An exception inside a conversion is the value
`Thrown`, which spreads to whatever is built of it (`Built`). In a query the
conversion is part of what `executeQuery` retries, so that a reply which cannot
be read is asked for again until the attempts are used up, and then rejected.

Texts, principals, blobs and tokens are members of small sets; what is kept is
which field goes where, under which name, what is absent and what `null` or
`undefined` becomes, the case distinctions, and the width of integers
(`Width32`, `Width64` stand for 2^32 and 2^64). A JSON object used as a
dictionary is a sequence of entries, key and value, as `Object.entries` gives
it; the tips of a message, which are made from such entries, are a function from
principals to an amount or `Missing` (`ObjectOf`: of two entries with one key the
later is kept). A numeric type of TypeScript is `Nat`, its numeric enums
included, which admit every number. `MessageDraft`, `ChannelDraft` and `ClientRequests` are what callers may fill
in, the fields of the classes `Message` and `Channel`; `Requests` is any set of
such calls. `Places` and `InOrder` are how OpenChat selects the events of a page:
the places that the criteria name, in ascending order (external).

The model shows these limits of the code, which the properties name as
exceptions:

* `PagesReadBack`: a page of events is lost as a whole if one of its messages
  is a prize or a swap (the mapping reads a field `token` that their schemas do
  not have), a pending transfer, a transfer whose memo is an empty blob, or a
  custom content of another kind than the two known ones or with broken data.
* `ChannelReadsBack`: a permission of messages that was not set reads as
  "none", though OpenChat then applies the default one.
* A reply "Error" (a code and a message) is mapped by no call; its caller gets a
  rejection. So does the caller of an update whose reply is lost, which
  therefore may have been done (`AnswerTellsOutcome`).
* A credential gate whose arguments are an empty record reads as one without
  arguments (`ReadLeafGate`), and an id of a message wider than 64 bits reads as
  its last 64 (`SentReadsBack` asks for those that fit).
* A gate of kind `nft_gate` throws synchronously, before there is a promise.

### How `BotCommands` and `FileUpload` correspond to the code

`runs[r]` is a request: where its handler is (`working` for whatever it awaits,
`uploading`, `over`, `givenUp` after a failure that is caught, `crashed`) and
the HTTP response it has given. `sends` are the calls of `sendMessage`, each
with its state at OpenChat, the state of its promise, and whether the handler
has put a `catch` to it. A rejected promise that nobody catches ends the
process: `up` becomes `FALSE`, and with it every other request. `messages[r]` is
the message under the id of the request's token: the first to arrive makes it,
others update it until one is final (external, as `handlers` use it).

`FileUpload` is `DataClient.uploadFile`: a bucket is allocated, all chunks are
sent side by side, each with its attempts, and the upload resolves with the last
chunk or rejects with the first that fails, while others go on. The bucket may
store a chunk though its reply is lost; the next attempt is then answered
"ChunkAlreadyExists", which the code counts as a failure.

What the model shows of this code:

* In a community's scope the id of the canister that may read the file is "",
  which is no principal, so that every attempt to upload throws.
* `/imagine` declares text messages only, and its image is refused by the client
  itself after it was made and stored; `/file` declares files only, and its
  placeholder is refused.
* `prompt` and `imagine` show the placeholder before they look at their
  argument. Without it they answer a second time, which throws and ends the
  process.
* An invalid token is answered with 500, since the error thrown is not of the
  class that the middleware tests for.
* The message of an action is shown under the id 0, since an API key has none.
* An action shows its message as final before it calls `sendMessage`, and does
  not look at the outcome. An API key grants what its owner has chosen of the
  permissions that the bot seeks (`OVERVIEW.md:85`, `rs/sdk/README.md:101`). If
  it does not grant text messages the client resolves with `not_authorized`
  without a call (`bot_client.ts:127`), and nothing is sent of what was shown.
  `ShownIsSent` states this as its exception. It is no finding, since the
  promise that a bot responds "with the final message that it sends"
  (`OVERVIEW.md`, Command lifecycle) is made of commands.

What a token grants is a field of the request, `granted`. A command is only
there to be given if everything it declares is granted (`OVERVIEW.md:33`), so
that its token grants what `schema.ts` declares; a key grants any part of what
the schema's `autonomous_config` asks for. `BotCommandsAssumption` states both.

## 3. Runs

| Run | Configuration | Result |
|---|---|---|
| `reminder_safety` | `ReminderSafety.cfg` | passes |
| `reminder_liveness` | `ReminderLiveness.cfg` | passes |
| `reminder_stale_reply` | `ReminderStaleReply.cfg` | violated: finding 1 |
| `discord_safety` | `DiscordSafety.cfg` | passes |
| `discord_liveness` | `DiscordLiveness.cfg` | passes |
| `discord_disconnect` | `DiscordDisconnect.cfg` | violated: finding 2 |
| `discord_persist` | `DiscordPersist.cfg` | violated: finding 3 |
| `discord_refusal` | `DiscordRefusal.cfg` | violated: finding 4 |
| `ts_ping` | `PingSafety.cfg` | passes |
| `ts_ping_revoked` | `PingRevoked.cfg` | violated: finding 5 |
| `ts_client` | `ClientCalls.cfg` | passes |
| `ts_commands` | `Commands.cfg` | passes |

Each property is accompanied by a mutant of the model, an operator `Faulty...`
beside the one it perverts, under which the property fails; none is used by the
specifications.

### Reminder bot

`reminder_safety` checks, with two groups:

* `TypeOK`;
* `IndexesAgree`: store and per-chat index agree both ways, so that a reminder
  can be listed exactly if it can be sent and no two share an id;
* `WaitsOnce`: a live reminder is in the queue for exactly one instant;
* `JobArmed`: between messages there is one timer exactly if the queue is not
  empty, `TIMER_ID` names it, it is not later than the first occurrence and
  not before any;
* `SentOnceInTime`: nothing is sent early, and nothing twice;
* `WithinLimits`: the limits hold of the store, though the chat's one is
  checked against the index.

`reminder_liveness` checks, with a channel that belongs to a community, that
only the job takes occurrences from the queue, only due ones, and sends those of
live reminders for which a key can be found, the community's included
(`OccurrenceLeavesWhenDue`); that what is due leaves the queue
(`DueLeavesQueue`), that it is sent unless its reminder is deleted or the key
goes (`DueIsSent`), and that the bot implements `ReminderService`
(`ImplementsService`), its fairness included (`ImplementsFairService`). In the
service a reminder is one entry with one instant; deletions, refusals, the
queue's leftovers, timers and upgrades disappear behind the mapping.

**Bounds.** `MaxTime = 3` gives instants before, at and after each other; the
schedule {1,3} is sent twice, and with `MinGap = 2` the schedule {1,2} is
refused at instant 0 and accepted at instant 1, when one instant is left. Three
additions (`MaxAdds`) with two reminders at a time, in total and per chat
(`MaxReminders`, `MaxRemindersPerChat`), suffice for an id to be freed and
reused, for a chat at its limit, for the store at its limit with a chat that is
not, and for a deleted occurrence in front of two live ones. The two groups are
interchangeable, and the run uses that symmetry. One permission distinguishes
keys that allow sending from those that do not. Liveness is checked with one
chat and two additions, enough for a deleted occurrence that ends the job's loop
in front of a live one: chats share nothing but the queue, in which two
reminders of one chat compete as two of different chats would. In these runs a
state in which the bounds forbid every command still has an upgrade, so that no
run needs deadlock checking to be switched off.

**Fairness.** `FairSpec` assumes weak fairness of `Run`, `Reply` and `Tick`:
the Internet Computer fires timers whose deadline has passed and runs a message
to its end, every inter-canister call is eventually answered, and time passes.
Commands and upgrades are not assumed to happen; upgrades may happen for ever,
each keeping what is due in the queue with a timer for it.

### Discord relay

`discord_safety` checks, across crashes and failing saves:

* `TypeOK`;
* `OnlyGivenKeys`: whatever a task holds across an await, and whatever is in
  memory or in a readable file, a channel is relayed only with a key that
  `/connect` was given in that channel;
* `CommandsHold`: a channel is linked as its last command asked, unless that
  command was given while a task was about to write an earlier link back, or a
  restart lost it. Findings 2 and 3 and such a restart are thus the only ways in
  which a command fails, and repeating the command repairs it. The property
  excuses the restart by its definition: `/disconnect` does not save the links
  (`state.rs:83`, where `/connect` does), so that after a restart a disconnected
  channel is relayed again, and no property holds that would forbid it.

`discord_liveness` checks that no event task waits for ever for room in the
channel, also after the relay task has ended (`SendersProceed`); that a message
posted after the relay task's end makes the link show it (`DeadRelayShows`); and
that the messages that got into the channel are settled in order and once each,
commands, saves and refusals notwithstanding (`ImplementsPipe`,
`ImplementsFairPipe`).

The other three runs each show one disagreement of the code with its documents,
without any fault.

**Bounds.** Two channels, two keys and two event tasks, each set
interchangeable; one place in the channel, two messages, three commands (connect,
a command that crosses, and one that repairs it) and one fault, either a crash
or a failed operation on the file. Liveness: one Discord channel, one key, two
places and three messages, so that a task waits while the channel is full and
the order of two waiting messages can be told, two commands and one fault. A
state in which the bounds are exhausted, or in which the bot is down and its
file cannot be read, has no successor; the runs therefore do not check for
deadlock.

**Fairness.** A task that can go on is run (`WF`), `tokio` grants the places in
the channel to waiting senders in turn (`SF` of `Push`), and a call to OpenChat
ends, if only by an error. Commands, messages, faults and restarts are not
assumed to happen.

### Ping example

`ts_ping` checks `TypeOK` and

* `PingsReachSubscriber`: a ping in flight goes to the chat that subscribed,
  also when the key is its community's and keys have been replaced since;
* `SubscriptionsHold`: a scope is subscribed as its last command asked, once,
  under the key that is found for it, unless that key has changed since;
* `ValidKeyIsKept`: a late refusal of a revoked key does not lose a valid one,
  unless two keys were issued for one scope;
* `SubscribedIsPinged`: a subscribed chat is pinged again and again.

`ts_ping_revoked` shows finding 5.

**Bounds.** A channel and its community, with two keys for the channel and one
for the community, are the least in which a key is replaced, a key falls back on
another, and an answer arrives after a replacement. That nothing is confused
between two channels of a community is not seen in this instance, which has one;
the theorems `PingsReach` and `SubscriptionsHeld` cover it, for any scopes. A tick leaves out the
subscriptions whose call is in flight; without this the calls would have to be
counted. **Fairness.** The interval is never cleared and fires; each call of
OpenChat ends.

### TypeScript client

`ts_client` checks `TypeOK`; that arguments parse (`ArgumentsParse`); that an
answer is of the type the signature declares (`AnswersAsDeclared`); that pages,
channels and messages read back as they were sent (`PagesReadBack`,
`ChannelReadsBack`, `SentReadsBack`), with the exceptions above; that an answer
tells whether an update was done (`AnswerTellsOutcome`); that nothing is sent
that the token does not grant (`OnlyGrantedSent`); that a query is tried
`MAX_RETRIES` times again and an update once (`AttemptsBounded`); and that every
call settles (`CallsSettle`).

**Bounds.** The conversions are functions of one message, one event or one
channel: `MCBotClient` lists one of every kind of content, event, gate, role,
status and answer, with and without each group of optional fields. One caller
suffices, since calls share nothing in the client; OpenChat's side goes on
beside it (`Happens`, `RemoveChannel`). One retry tells a first attempt, a last
one and a failure in each; two events more than the history and one channel
allow a page, a message in a made channel, and a channel that is gone when its
details are asked for. Widths of 16 and 64 tell a value that fits from one that
wraps. **Fairness.** Every call that is under way proceeds: it is delivered or
fails, and the timer of a retry fires.

### Example server

`ts_commands` checks `TypeOK` and

* `AnswerStays`: an answer that OpenChat has accepted is not replaced by the
  placeholder sent before it, whichever arrives first;
* `ShownIsSent`: what is shown as final is what is sent, and nothing else is;
  only for an action whose API key does not grant what the message needs,
  nothing is sent;
* `PostedFilesComplete`: a message with a file is posted only when the bucket
  holds all its chunks, whatever replies were lost;
* `CrashesExplained`: which commands can end the process, and by what;
* `RequestsAnswered`: a request is answered, or the process ends;
* `PlaceholderFollowed`: a placeholder is followed by its answer, unless what
  the command waits for fails, except for `/imagine`.

**Bounds.** Requests share the process, the limiter and nothing else: one
request of any kind and one other beside it show what a crash does to the other.
An action comes with API keys that grant texts, images, both, neither, or all
that the bot seeks.
`Limit = 1` lets the limiter refuse one. Two chunks with two attempts each tell
the first from the last, an upload of which one chunk fails while the other is
under way, and a retry after a lost reply. When the process has ended nothing
happens any more, so that the run does not check for deadlock. **Fairness.**
Whatever a handler awaits comes to an end, and so do its calls of `sendMessage`;
that messages arrive at OpenChat is not assumed.

## 4. Proofs

### Reminder bot

| Theorem | States |
|---|---|
| `TypeCorrect` | `Spec => []TypeOK` |
| `InvariantCorrect` | `Spec => []IInv` |
| `IndexesCorrect`, `QueueCorrect`, `JobCorrect`, `SentCorrect` | `Spec => []` of `IndexesAgree`, `WaitsOnce`, `JobArmed`, `SentOnceInTime` |
| `LimitsCorrect` | `Spec => []WithinLimits` |
| `LeavesCorrect` | `Spec => OccurrenceLeavesWhenDue` |
| `ServiceImplemented` | `Spec => ImplementsService`: the bot refines `ReminderService` |

They hold for all chats, communities, schedules, limits and bounds, under
`ApiKeysAssumption` (a channel's community is a community) and
`ReminderBotAssumption` (instants are naturals, `NoTimer` is not one).

The argument. `IInv` is the conjunction of `TypeOK`, `IndexesAgree`,
`WaitsOnce`, `JobArmed` and `SentOnceInTime`. The parts lean on each other:
`SentOnceInTime` is kept when a recurring reminder is queued again only because
the popped occurrence was the reminder's only one (`WaitsOnce`), and
`IndexesAgree` is kept by a deletion only because the entry removed from the
index is the reminder's own. `StepCases` reduces `Next` to the cases that
differ for these invariants, and one lemma per invariant (`IndexesStep`,
`WaitsStep`, `JobStep`, `SentStep`) goes through them. The total limit is
inductive given the types (`TotalStep`); the chat's limit is not an induction at
all but a consequence of `IndexesAgree`: `chatId` is an injection of a chat's
reminders into `1..MaxRemindersPerChat` (`ChatWithinLimit`).

The refinement maps the queue to one instant per live reminder (`PendingDue`),
which `WaitsOnce` makes well defined. `AddAccepts`, `DeleteCancels` and
`PopFires` show that the commands, a deletion, the refusal of a message, and the
turn of the loop that pops an occurrence are steps of the service; everything
else stutters (`ServiceStutters`), the pop of a deleted reminder's occurrence
included. That an accepted id is new to the service is `IdsTaken`.

### Discord relay

| Theorem | States |
|---|---|
| `TypeCorrect` | `Spec => [](TypeOK /\ Places)` |
| `InvariantCorrect` | `Spec => []IInv` |
| `KeysCorrect`, `CommandsCorrect` | `Spec => []` of `OnlyGivenKeys`, `CommandsHold` |
| `PipeImplemented` | `Spec => ImplementsPipe`: the bot refines `MessagePipe` |

They hold for all channels, keys and tasks, every capacity and every bound,
under `DiscordRelayAssumption` (`NoKey` is not a key, `NoLink` not a link,
the relay task not one of the event tasks).

The argument. `OnlyGivenKeys` needs `SnapshotsGiven`, since what a task writes
to the file is what it serialised earlier, and `Places`, since a task's message
may change only while it holds no link. `CommandsHold` needs `ClonesHold`: the
link a task is about to write back is the one its channel should have, unless a
command crossed it. A command keeps `ClonesHold` because it marks its channel as
crossed exactly if some task holds a link of it. `TypeStep`, `GivenStep` and
`HoldStep` go through the actions.

The refinement needs `PipeInv`: a message that waits for room in the channel is
neither in it already nor with another task, and none has a number that is still
to be given (`NewToPipe`), so that the pipe accepts it as a new one; and nothing
is left in the channel when its receiver is gone (`LostWhenClosed`), so that a
crash or the end of the relay task loses what waited at once, as the pipe's
closing does.

### Ping example

| Theorem | States |
|---|---|
| `TypeCorrect` | `Spec => []TypeOK` |
| `IInvHolds` | `Spec => []IInv` |
| `PingsReach`, `ValidKeyKept`, `SubscriptionsHeld` | `Spec => []` of `PingsReachSubscriber`, `ValidKeyIsKept`, `SubscriptionsHold` |

They hold for every set of chats, communities, threads and keys and whatever
the keys grant, under the assumptions of `ActionScopes` and `PingAssumption`.

The argument. `IInv` says beside `TypeOK` that a key is held under the text of
its own scope (`KeysUnderText`) and was given (`KeysGiven`), that a subscription
or a call under a key is covered by that key's scope (`SubscriptionsCovered`,
`CallsCovered`), and that a refused call's key was revoked (`RefusedAreRevoked`).
`PingsReachSubscriber` follows from the covers alone. `ValidKeyIsKept` is an
induction of its own over `IInv`: a refusal deletes the key held for the scope
of a revoked key, which is another one only if two were issued for that scope.
`SubscriptionsHold` needs that a change of a key can change the lookup of no
other scopes than those the change marks.

### Example server

| Theorem | States |
|---|---|
| `TypeCorrect` | `Spec => []TypeOK` |
| `InvariantCorrect` | `Spec => []IInv` |
| `FilesComplete`, `AnswersStay` | `Spec => []` of `PostedFilesComplete`, `AnswerStays` |
| `ShownSent`, `CrashesAccounted` | `Spec => []` of `ShownIsSent`, `CrashesExplained` |

They hold for any requests side by side, with any API keys, any limit, and files
of any number of chunks with any number of attempts, under
`BotCommandsAssumption` and `MissingAssumption` (what stands for an absent value
is no message and no response).

The argument. `AnswerStays` needs that a call belongs to a request that has come
in (`SendsSound`), whose command does not change, and that every answer is final
(`AnswerShape`), so that OpenChat takes nothing after it. `PostedFilesComplete`
needs that a message with a file is made only after its upload is resolved
(`SendsSound` again), that a resolved upload has each chunk completed, and that a
chunk which counts as completed is stored (`UploadsSound`); a lost reply makes
the code believe less than the bucket has, never more. `CallsCounted` bounds the
calls of a request by where its handler stands. The steps of handlers have all
one form, `HandlerStep`, of which `HandlerStepSound` proves that it keeps the
invariant; one lemma per handler shows that it takes steps of this form.

`BotCommandsGuarantees` builds on that invariant. `ToldInv` says of each request
what its response tells of the messages sent (`Tells`: beside an answer that is
shown only that answer is sent, or nothing if the token is a key that does not
grant it; beside a notice or a status nothing is), what is
shown while the handler waits (`Waits`), and that a call whose failure nobody
catches is the answer to a prompt or belongs to `file` (`Caught`). What OpenChat
posts is a message that was sent (`PostedIsSent`), and `ShownIsSent` follows. A
process ends by a handler that throws, for which `HandlerCrash` gives the reasons
(`TurnTold`), or by a call of the second kind that is rejected;
`CrashesExplained` is kept because a rejected call stays one (`Follows`).

`MasksAssumption` is explained below, with the client.

### TypeScript client

| Theorem | States |
|---|---|
| `TypesCorrect` | `Spec => []TypeOK` |
| `AttemptsLimited`, `GrantedSent`, `AnswersTell` | `Spec => []` of `AttemptsBounded`, `OnlyGrantedSent`, `AnswerTellsOutcome` |
| `ArgumentsTaken` | `Spec => []ArgumentsParse` |
| `ChannelsReadBack`, `MessagesReadBack` | `Spec => []` of `ChannelReadsBack`, `SentReadsBack` |
| `AnswersDeclared` | `Spec => []AnswersAsDeclared` |
| `PagesComplete` | `Spec => []PagesReadBack` |

They hold for all drafts, gates, permissions, criteria and contents that the
types of the client allow, any number of callers, channels and events, every
history, every number of retries, and all widths that the integers are cut to.
Where TLC goes through the seventeen calls that `MCBotClient` lists, the theorems
hold for each value of the types: a composite gate of any leaf gates, any
custom permissions, a poll with any configuration, and pages with any number of
events of any kind.

The argument has three parts. *Calls*: `CallsSound` says of each call that it has
the fields and the number of attempts of its stage (`CallShape`), that what was
sent is granted, is what `toInputArgs` made of the request and satisfies the
schema (`SentSound`), and that an answer is what the mapper makes of the reply in
hand, which is a success exactly if the update was done (`ReplySound`).
`OnlyGrantedSent`, `AttemptsBounded`, `ArgumentsParse` and `AnswerTellsOutcome`
follow. That every draft parses is the content of the lemmas on `ApiGate`,
`ApiGroupPermissions` and the other mappings: each maps its domain type into its
schema. *Chats*: `ChatsSound` types what OpenChat keeps, which makes the details
of a channel satisfy their schema again; `ChatsMade` says that channels are
numbered without gaps, so that making one replaces none, and that each channel and
message is the one its draft says; `ReadsSound` says that a reply which was not
delivered yet is still found in the chat it is about, although the chat goes on
(`Grows`: logs only get longer, details and drafts stay). What is left is that
the mapping out and the mapping back cancel: `GateReadsBack`, `ConfigReadsBack`,
`DetailsReadBack`, `ContentReadsBack`, `EventReadsBack`. `OrderedPlaces` shows
that `InOrder` lists the places of a page, each once: `i` is found at the place
of its rank, since ranks of different places differ.

*Replies*: `RepliesSound` says that a reply in hand satisfies the schema of its
request (`Responses`), that an answer is one of those declared (`Answers`), and
that a call for events which is settled with a reply in hand has been delivered:
its outcome is what the mapper makes of that reply, or a rejection if the mapper
throws (`Delivered`). The last is inductive only because a query that fails
otherwise loses its reply, before the retry and after the last one. It needs
`ChatsSound`, by which whatever OpenChat reads from its chats satisfies the
schemas (`PageTyped`, `DetailsTypes`). `AnswersDeclared` and `PagesComplete`
follow from it by `AnswerDeclared` and `PageDeclared`, which stand at the end of
`MappingProofs`: one lemma per conversion (`...Declared`) shows that it maps its
schema into its declared type, and for contents and events that it throws exactly
for those that `UnreadableContent` lists (`ContentDeclared`, `EventDeclared`,
`WrapperDeclared`). These are exact: dropping one kind from `UnreadableContent`,
or listing one more, makes `PageDeclared` false.

One conversion is an induction over data: that the number read of a memo, however
long, is a number (`NumberOfBytes`). The provers cannot instantiate the library's
induction theorems, which take an operator, but they can use the well-foundedness
of the naturals: `LeastNat` gives a least element to every set of naturals,
`Induct` states induction over a set in place of a predicate, and `NumberOfBytes`
shows with it first that the recursive function exists and then that its values
are naturals. `MaxOf`, the last of several entries for a key, follows from
`LeastNat` too.

Three assumptions stand behind this beside those on the types of the constants
(`BotClientAssumption`, `MappingAssumption`). TLC evaluates all of them.

* `MasksAssumption`: the bit masks of `BotPermissions` and the sets of
  permissions agree on every set. It is a closed formula, without constants,
  over the numbers of the permissions in `domain/permissions.ts`; TLC decides
  it, and the provers, which have no theory of powers of two, take it from there.
* `ValuesAssumption`: `Missing` and `Thrown`, which stand for an absent value and
  an exception, are none of the values that are mapped or made by the mapping, and
  the bytes of a principal are not its text. A model value satisfies this.
* `MimeAssumption`: the literal that `createChannel` gives an avatar is a text.

### Not proved

* Liveness, of which the provers cannot reason: `DueLeavesQueue`, `DueIsSent`,
  `ImplementsFairService`, `SendersProceed`, `DeadRelayShows`,
  `ImplementsFairPipe`, `SubscribedIsPinged`, `CallsSettle`, `RequestsAnswered`
  and `PlaceholderFollowed`. The safety part of both refinements is proved, and so
  is every invariant and every action property that a passing run checks.
* That the masks agree with the sets they encode (`P!MasksAgree`), which TLC
  evaluates.

## 5. Findings

1. **A refusal may delete another reminder** (`reminder_stale_reply`,
   `model/reminders.rs:91`). A one-off reminder is removed and its chat reminder
   id freed when it is sent. If a reminder is added in the chat before OpenChat
   answers, it gets that id; if the answer is a refusal, it is deleted, and
   its owner is told nothing. Capturing the global id would avoid it.
2. **A disconnected channel is linked again by the relay task**
   (`discord_disconnect`, `openchat/events.rs:83`). It writes back the link it
   read before the call. Updating the error of a link that is still there, with
   the same key, would avoid it.
3. **A link set while another task saves may be lost, or the file be spoilt**
   (`discord_persist`, `state.rs:154`). The snapshot is taken and the file
   written under no common lock.
4. **A refused message clears the error of the link** (`discord_refusal`,
   `openchat/events.rs:72`). Only an error of the call counts as a failure.
5. **A revoked key stays subscribed** (`ts_ping_revoked`,
   `ts/packages/example/src/handlers/ping.ts:45`). The key is deleted before
   `unsubscribe` looks it up to find the subscription, which is thus not found
   and pinged at every interval. Exchanging the two lines would avoid it.

## 6. Not modelled

`PROJECT.json` lists every component with its status, and every hazard with the
properties that cover it.

* The Motoko ping bot keeps subscriptions with timers, much as the TypeScript
  example does; its own hazards (a queued tick after `/stop`, a key captured by
  a timer, subscriptions dropped by an upgrade) are listed without a property.
* Command dispatch in Rust and Motoko is a table of handlers and a check of
  arguments; it keeps no state. The Motoko registry and permissions repeat
  `ApiKeys` and `BotPermissions`.
* The Rust and Motoko clients build one call and await it, without retries; the
  effect of their replies is in `ReminderBot` and `DiscordRelay`.
* The greet bot's list of jokes, the stateless bots, JSON and Candid codecs,
  signatures, image drawing, random numbers, the calls of language models, and
  configuration files.
* `typebox.ts` is generated and holds the types of all calls of OpenChat;
  `WireTypes` has those that `BotClient` and the upload use. The encoding as
  MessagePack is abstracted to whether a value fits its schema.

The Discord bot without a store path, which never saves, is not modelled; nor is
the order in which Discord's events reach the channel, which the code leaves to
the scheduler and no document promises.

Three hazards of the reminder bot are not covered by a property: the growth of
the queue by deleted reminders due in the far future (the model bounds the
reminders ever added); the overflow of a very long delay in the timer library,
whose code is not in the repository; and the empty map that a refused recurring
reminder leaves for its chat (`model/reminders.rs:168`), which disturbs only the
metric `chats_with_reminders`.
