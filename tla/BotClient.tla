------------------------------ MODULE BotClient ------------------------------
(***************************************************************************)
(* The client of the TypeScript SDK (clients/bot_client.ts) and what it    *)
(* stands on: the gateway client, the canister agent with its retries and  *)
(* errors, and the mapping of what is sent and received.  OpenChat, its    *)
(* chats and the network between are modelled as the client knows them.    *)
(***************************************************************************)
EXTENDS Drafts, FiniteSetsExt

CONSTANTS
    Callers,            \* the parts of a bot that call the client
    Auth,               \* the token the client was made with
    GrantedByToken,     \* the permissions granted with that token
    Requests,           \* the calls that callers make
    OwnDetails,         \* the details of the chat the token is for
    Histories,          \* what may have happened there before
    Events,             \* what others may do in a chat
    MaxRetries,         \* MAX_RETRIES
    MaxEvents,          \* Bound: the events of all chats, if any more are to come
    MaxChannels         \* Bound: the channels made

Wire == INSTANCE WireTypes
Domain == INSTANCE DomainTypes
P == INSTANCE BotPermissions

(* The chat that the token is for has no number, but is 0 here. *)
OwnChat == 0
ChannelIds == Nat \ {OwnChat}

(* What callers fill in: the fields of the classes Message and Channel,    *)
(* and the arguments of the client's functions                             *)
MessageDraft ==
    [content : Wire!BotMessageContent, requiredMessagePermissions : SUBSET P!MessagePermissions,
     channelId : ChannelIds \cup {Missing}, messageId : Nat \cup {Missing},
     contextMessageId : Nat \cup {Missing}, finalised : BOOLEAN, blockLevelMarkdown : BOOLEAN,
     ephemeral : BOOLEAN]

ChannelDraft ==
    [name : STRING, description : STRING, isPublic : BOOLEAN,
     permissions : Domain!GroupPermissions, messagesVisibleToNonMembers : BOOLEAN,
     historyVisibleToNewJoiners : BOOLEAN, rules : [text : STRING, enabled : BOOLEAN],
     gateConfig : Domain!AccessGateConfig \cup {Missing}, externalUrl : STRING \cup {Missing},
     avatar : STRING \cup {Missing}, eventsTtl : Nat \cup {Missing}]

ClientRequests ==
    [op : {"sendMessage"}, message : MessageDraft]
    \cup [op : {"createChannel"}, channel : ChannelDraft]
    \cup [op : {"deleteChannel"}, channelId : ChannelIds]
    \cup [op : {"chatDetails"}, channelId : ChannelIds \cup {Missing}]
    \cup [op : {"chatEvents"}, criteria : Domain!ChatEventsCriteria,
          channelId : ChannelIds \cup {Missing}]

ASSUME BotClientAssumption ==
    /\ GrantedByToken \in P!Granted
    /\ OwnDetails \in Wire!ChatDetails
    /\ Histories \subseteq Seq(Wire!ChatEvent)
    /\ Events \subseteq Wire!ChatEvent
    /\ MaxRetries \in Nat /\ MaxEvents \in Nat /\ MaxChannels \in Nat
    /\ Requests \subseteq ClientRequests
    /\ Auth \in [kind : {"api_key", "command_jwt"}, token : STRING]
    /\ Principals # {}

ASSUME MasksAssumption == P!MasksAgree

(* Missing and Thrown are none of the values that are mapped, and the      *)
(* bytes of a principal are not the text of one.                           *)
ASSUME ValuesAssumption ==
    /\ {Missing, Thrown} \cap
        (Nat \cup [mime_type : STRING, data : STRING]
            \cup Domain!PermissionRole \cup Wire!GroupPermissionRole
            \cup Domain!MessagePermissions \cup Wire!MessagePermissions
            \cup Domain!CustomPermission \cup Wire!CustomPermission
            \cup Seq(Domain!CustomPermission)
            \cup Domain!AccessGateConfig \cup Wire!AccessGateConfig
            \cup Domain!LeafGate \cup Wire!BotMessageContext
            \cup {"completed", "failed", "crypto_content", "prize_winner_content", "success"}
            \cup STRING \cup Principals \cup Wire!TSBytes \cup Seq(Nat) \cup Seq(Nat \X Nat)
            \cup Domain!CompletedCryptocurrencyTransfer
            \cup Domain!FailedCryptocurrencyTransfer
            \cup Domain!MessageReport \cup Domain!VideoCallParticipant
            \cup Domain!Reaction \cup Domain!CommandArg
            \cup Domain!MessageContent \cup Domain!ChatEvent
            \cup Domain!ChatEventWrapper \cup Seq(Domain!ChatEventWrapper)
            \cup Domain!ChatEventsSuccess) = {}
    /\ Wire!TSPrincipal \cap Principals = {}

(* True of TLA+, but the provers have no rule for it *)
ASSUME MimeAssumption == "image/jpg" \in STRING

VARIABLES
    chats,      \* OpenChat's chats: the token's one is 0, the others are channels
    calls       \* what each caller's call has come to

vars == <<chats, calls>>

-----------------------------------------------------------------------------
(* OpenChat *)

Present == {chat \in DOMAIN chats : ~chats[chat].removed}
TargetOf(args) == OrElse(args.channel_id, OwnChat)

(* An entry of a chat's log: the event, and the message it was made of.    *)
Entry(event, draft) == [event |-> event, draft |-> draft]
Happened(event) == Entry(event, Missing)

Size == MapThenSumSet(LAMBDA chat : Len(chats[chat].log), DOMAIN chats)

(* The event at a place of a log, as it is sent *)
Wrapped(log, i) ==
    [index |-> i - 1, timestamp |-> i, expires_at |-> Missing, event |-> log[i].event]

Sent(args, index) ==
    [tag |-> "Message",
     value |-> [message_index |-> index, message_id |-> OrElse(args.message_id, Width64 + index),
                sender |-> [bytes |-> CHOOSE p \in Principals : TRUE], content |-> args.content,
                bot_context |-> [command |-> Missing, finalised |-> args.finalised],
                replies_to |-> Missing, reactions |-> <<>>, tips |-> <<>>,
                thread_summary |-> Missing, edited |-> FALSE, forwarded |-> FALSE,
                block_level_markdown |-> args.block_level_markdown]]

Created(args) ==
    [tag |-> "GroupChatCreated",
     value |-> [name |-> args.name, description |-> args.description,
                created_by |-> [bytes |-> CHOOSE p \in Principals : TRUE]]]

DetailsOf(args) ==
    [name |-> args.name, description |-> args.description,
     avatar_id |-> Optional(args.avatar, LAMBDA a : 1), is_public |-> args.is_public,
     history_visible_to_new_joiners |-> args.history_visible_to_new_joiners,
     messages_visible_to_non_members |-> args.messages_visible_to_non_members,
     permissions |-> args.permissions,
     rules |-> [text |-> args.rules.text, version |-> 0, enabled |-> args.rules.enabled],
     events_ttl |-> args.events_ttl, events_ttl_last_updated |-> Missing,
     gate_config |-> args.gate_config, video_call_in_progress |-> Missing,
     verified |-> Missing, frozen |-> Missing, date_last_pinned |-> Missing,
     last_updated |-> 0, external_url |-> args.external_url, latest_event_index |-> 0,
     latest_message_index |-> Missing, member_count |-> 1]

(* The places of a log that criteria select, in their order *)
Places(log, criteria) ==
    LET value == criteria.value
        indexes ==
            CASE criteria.tag = "Page" ->
                    IF value.ascending
                    THEN value.start_index .. value.start_index + value.max_events - 1
                    ELSE value.start_index - value.max_events + 1 .. value.start_index
              [] criteria.tag = "ByIndex" -> ToSet(value.events)
              [] criteria.tag = "Window" ->
                    value.mid_point - value.max_events \div 2
                        .. value.mid_point + value.max_events \div 2
    IN  {i \in DOMAIN log : i - 1 \in indexes}

InOrder(places) ==
    [k \in 1 .. Cardinality(places) |->
        CHOOSE i \in places : Cardinality({j \in places : j <= i}) = k]

Selected(log, criteria) == InOrder(Places(log, criteria))

EventsOf(log, criteria) ==
    [events |-> [k \in DOMAIN Selected(log, criteria) |->
                    Wrapped(log, Selected(log, criteria)[k])],
     unauthorized |-> <<>>, expired_event_ranges |-> <<>>, expired_message_ranges |-> <<>>,
     latest_event_index |-> Len(log), chat_last_updated |-> Len(log)]

-----------------------------------------------------------------------------
(* Calls *)

Queries == {"chatDetails", "chatEvents"}
Updates == {"sendMessage", "createChannel", "deleteChannel"}

(* What toCanisterResponseError makes of a failure, as far as retries tell *)
(* it apart: 401 and 403 are "Auth", but an invalid delegation is not.     *)
Errors == {"DestinationInvalid", "ResponseTooLarge", "InvalidDelegation", "Auth", "Http"}

Idle == [at |-> "idle"]
Pending == [tag |-> "pending"]

Call(request, args) ==
    [at |-> "sent", request |-> request, args |-> args, tries |-> 1, runs |-> 0,
     reply |-> Pending, outcome |-> Pending]

Settled(call, outcome) == [call EXCEPT !.at = "settled", !.outcome = outcome]
Answered(call, answer) == Settled(call, [tag |-> "answered", answer |-> answer])
Refused(request, kind) == Answered([Call(request, Missing) EXCEPT !.tries = 0], [kind |-> kind])

(* The arguments that the gateway client makes of a request, and the       *)
(* schema they have to satisfy                                             *)
ArgsOf(request) ==
    CASE request.op = "sendMessage" -> MessageInputArgs(request.message, Auth)
      [] request.op = "createChannel" -> ChannelInputArgs(request.channel, Auth)
      [] request.op \in {"deleteChannel", "chatDetails"} ->
            [channel_id |-> request.channelId, auth_token |-> ApiAuthToken(Auth)]
      [] request.op = "chatEvents" ->
            [channel_id |-> request.channelId, auth_token |-> ApiAuthToken(Auth),
             events |-> ApiChatEventsCriteria(request.criteria)]

Parses(request, args) ==
    CASE request.op = "sendMessage" -> args \in Wire!BotSendMessageArgs
      [] request.op = "createChannel" -> args \in Wire!BotCreateChannelArgs
      [] request.op = "deleteChannel" -> args \in Wire!BotDeleteChannelArgs
      [] request.op = "chatDetails" -> args \in Wire!BotChatDetailsArgs
      [] request.op = "chatEvents" -> args \in Wire!BotChatEventsArgs

(* The mapper of the response *)
AnswerOf(op, reply) ==
    CASE op = "sendMessage" -> SendMessageResponse(reply)
      [] op = "createChannel" -> CreateChannelResponse(reply)
      [] op = "deleteChannel" -> DeleteChannelResponse(reply)
      [] op = "chatDetails" -> ChatDetailsResponse(reply)
      [] op = "chatEvents" -> ChatEventsResponse(reply)

(* What a caller sees of an error: chatDetails answers with it.            *)
Rejected(call, error) ==
    IF call.request.op = "chatDetails" THEN Answered(call, [kind |-> "server_error"])
    ELSE Settled(call, [tag |-> "rejected", error |-> error])

(* Fault: there is one retry more. *)
FaultyRetried(call, error) ==
    /\ call.request.op \in Queries
    /\ error \notin {"ResponseTooLarge", "DestinationInvalid", "Auth"}
    /\ call.tries <= MaxRetries + 1

(* Fault: updates are retried as well. *)
FaultyRetriedUpdate(call, error) ==
    /\ error \notin {"ResponseTooLarge", "DestinationInvalid", "Auth"}
    /\ call.tries <= MaxRetries

(* executeQuery: updates are not retried, and not every error is.          *)
Retried(call, error) ==
    /\ call.request.op \in Queries
    /\ error \notin {"ResponseTooLarge", "DestinationInvalid", "Auth"}
    /\ call.tries <= MaxRetries

(* Fault: the reply that could not be mapped is kept. *)
FaultyFailed(call, error) ==
    IF Retried(call, error) THEN [call EXCEPT !.at = "waiting"] ELSE Rejected(call, error)

(* Fault: the promise that waits for a retry is never rejected. *)
FaultyFailedRetry(call, error) ==
    IF Retried(call, error) THEN [call EXCEPT !.at = "waiting", !.reply = Pending]
    ELSE IF call.tries > 1 THEN call ELSE Rejected(call, error)

(* What fails at an attempt, a mapper that throws included *)
Failed(call, error) ==
    IF Retried(call, error) THEN [call EXCEPT !.at = "waiting", !.reply = Pending]
    ELSE Rejected(call, error)

(* Fault: a permission for channels of one kind is taken for one of both. *)
FaultyPermitted(request) ==
    LET bits == P!EncodePermissions(GrantedByToken)
    IN  CASE request.op = "sendMessage" ->
                \A p \in request.message.requiredMessagePermissions :
                    P!HasMessagePermission(bits, p)
          [] request.op = "createChannel" ->
                \/ P!HasCommunityPermission(bits, "CreatePublicChannel")
                \/ P!HasCommunityPermission(bits, "CreatePrivateChannel")
          [] OTHER -> TRUE

(* The permission that the client itself asks of a request *)
Permitted(request) ==
    LET bits == P!EncodePermissions(GrantedByToken)
    IN  CASE request.op = "sendMessage" ->
                \A p \in request.message.requiredMessagePermissions :
                    P!HasMessagePermission(bits, p)
          [] request.op = "createChannel" ->
                IF request.channel.isPublic
                THEN P!HasCommunityPermission(bits, "CreatePublicChannel")
                ELSE P!HasCommunityPermission(bits, "CreatePrivateChannel")
          [] OTHER -> TRUE

-----------------------------------------------------------------------------
Init ==
    /\ \E history \in Histories :
        chats = Put(EmptyMap, OwnChat,
                    [details |-> OwnDetails, draft |-> Missing, removed |-> FALSE,
                     log |-> [i \in DOMAIN history |-> Happened(history[i])]])
    /\ calls = [c \in Callers |-> Idle]

(* A caller calls the client: toInputArgs throws before there is a promise.*)
Start(c, request) ==
    LET args == ArgsOf(request)
    IN  /\ calls[c] = Idle
        /\ calls' = [calls EXCEPT ![c] =
            IF ~Permitted(request) THEN Refused(request, "not_authorized")
            ELSE IF request.op = "sendMessage" /\ request.message.ephemeral
                THEN Refused(request, "invalid_request")
            ELSE IF args = Thrown
                THEN Settled([Call(request, Missing) EXCEPT !.tries = 0], [tag |-> "thrown"])
            ELSE IF ~Parses(request, args)
                THEN Rejected([Call(request, args) EXCEPT !.tries = 0], "Http")
            ELSE Call(request, args)]
        /\ UNCHANGED chats

(* OpenChat has a request to work on: an update may have been given up.    *)
Arrived(call) ==
    /\ call # Idle
    /\ call.tries > 0
    /\ call.reply = Pending
    /\ \/ call.at = "sent"
       \/ call.at = "settled" /\ call.request.op \in Updates /\ call.runs = 0

Replied(c, reply) == calls' = [calls EXCEPT ![c].reply = reply]
Done(c, reply) == calls' = [calls EXCEPT ![c].reply = reply, ![c].runs = @ + 1]

ExecuteSend(c) ==
    LET call == calls[c]
        chat == TargetOf(call.args)
        log == chats[chat].log
        event == Sent(call.args, Len(log))
    IN  /\ Arrived(call) /\ call.request.op = "sendMessage"
        /\ chat \in Present /\ Size < MaxEvents
        /\ chats' = [chats EXCEPT ![chat].log = Append(@, Entry(event, call.request.message))]
        /\ Done(c, [tag |-> "Success",
                    value |-> [message_id |-> event.value.message_id, event_index |-> Len(log),
                               message_index |-> Len(log), timestamp |-> Len(log),
                               expires_at |-> Missing]])

ExecuteCreate(c) ==
    LET call == calls[c]
        id == Cardinality(DOMAIN chats)
    IN  /\ Arrived(call) /\ call.request.op = "createChannel"
        /\ id <= MaxChannels /\ Size < MaxEvents
        /\ chats' = Put(chats, id, [details |-> DetailsOf(call.args),
                                    log |-> <<Happened(Created(call.args))>>,
                                    draft |-> call.request.channel, removed |-> FALSE])
        /\ Done(c, [tag |-> "Success", value |-> [channel_id |-> id]])

ExecuteDelete(c) ==
    LET call == calls[c]
    IN  /\ Arrived(call) /\ call.request.op = "deleteChannel"
        /\ IF call.args.channel_id \in Present
           THEN /\ chats' = [chats EXCEPT ![call.args.channel_id].removed = TRUE]
                /\ Done(c, [tag |-> "Success"])
           ELSE Replied(c, [tag |-> "ChannelNotFound"]) /\ UNCHANGED chats

Read(c) ==
    LET call == calls[c]
        chat == TargetOf(call.args)
    IN  /\ Arrived(call) /\ call.request.op \in Queries
        /\ IF chat \in Present
           THEN Replied(c, [tag |-> "Success",
                            value |-> IF call.request.op = "chatDetails"
                                      THEN chats[chat].details
                                      ELSE EventsOf(chats[chat].log, call.args.events)])
           ELSE Replied(c, [tag |-> "NotFound"])
        /\ UNCHANGED chats

(* OpenChat does not do what it is asked to. *)
Refusals(op) ==
    {"FailedAuthentication", "NotAuthorized", "Error"}
    \cup CASE op = "sendMessage" -> {"InvalidRequest", "Frozen", "ThreadNotFound",
                                     "MessageAlreadyFinalised", "C2CError"}
           [] op \in {"createChannel", "deleteChannel"} -> {"InvalidRequest", "Frozen", "C2CError"}
           [] op = "chatDetails" -> {"DirectChatUnsupported", "InternalError"}
           [] op = "chatEvents" -> {"InternalError"}

Refuse(c) ==
    /\ Arrived(calls[c])
    /\ \E tag \in Refusals(calls[c].request.op) : Replied(c, [tag |-> tag])
    /\ UNCHANGED chats

(* The reply arrives, and is mapped. *)
Deliver(c) ==
    LET call == calls[c]
        answer == AnswerOf(call.request.op, call.reply)
    IN  /\ call.at = "sent" /\ call.reply # Pending
        /\ calls' = [calls EXCEPT ![c] =
                        IF answer = Thrown THEN Failed(call, "Http") ELSE Answered(call, answer)]
        /\ UNCHANGED chats

(* The attempt fails, before OpenChat works on it or after. *)
Fail(c) ==
    LET call == calls[c]
        lost == IF call.request.op \in Queries THEN [call EXCEPT !.reply = Pending] ELSE call
    IN  /\ call.at = "sent"
        /\ \E error \in Errors : calls' = [calls EXCEPT ![c] = Failed(lost, error)]
        /\ UNCHANGED chats

Retry(c) ==
    /\ calls[c].at = "waiting"
    /\ calls' = [calls EXCEPT ![c].at = "sent", ![c].tries = @ + 1]
    /\ UNCHANGED chats

Forget(c) ==
    /\ calls[c].at = "settled"
    /\ calls' = [calls EXCEPT ![c] = Idle]
    /\ UNCHANGED chats

(* Others write to a chat, and remove channels. *)
Happens(chat, event) ==
    /\ Size < MaxEvents
    /\ chats' = [chats EXCEPT ![chat].log = Append(@, Happened(event))]
    /\ UNCHANGED calls

RemoveChannel(chat) ==
    /\ chat # OwnChat
    /\ chats' = [chats EXCEPT ![chat].removed = TRUE]
    /\ UNCHANGED calls

Attempt(c) == Deliver(c) \/ Fail(c)

Next ==
    \/ \E c \in Callers :
        \/ \E request \in Requests : Start(c, request)
        \/ ExecuteSend(c) \/ ExecuteCreate(c) \/ ExecuteDelete(c) \/ Read(c) \/ Refuse(c)
        \/ Attempt(c) \/ Retry(c) \/ Forget(c)
    \/ \E chat \in Present :
        \/ \E event \in Events : Happens(chat, event)
        \/ RemoveChannel(chat)

Spec == Init /\ [][Next]_vars

(* A request is answered or fails in the end, and timers fire.             *)
FairSpec == Spec /\ \A c \in Callers : WF_vars(Attempt(c)) /\ WF_vars(Retry(c))
-----------------------------------------------------------------------------
(* Properties *)

CallTypes(c) ==
    LET call == calls[c]
    IN  \/ call = Idle
        \/ /\ call.at \in {"sent", "waiting", "settled"} /\ call.request \in Requests
           /\ call.tries \in 0 .. MaxRetries + 1 /\ call.runs \in 0..1
           /\ (call.at = "settled") = (call.outcome # Pending)
           /\ call.at = "waiting" => call.reply = Pending

(* What this client makes of chats and channels is what the schemas say,   *)
(* calls hold what their stage says, and no reply is kept for the next     *)
(* attempt.                                                                *)
TypeOK ==
    /\ DOMAIN chats \subseteq 0..MaxChannels /\ OwnChat \in Present
    /\ \A chat \in DOMAIN chats :
        /\ chat # OwnChat => chats[chat].details \in Wire!ChatDetails
        /\ \A i \in DOMAIN chats[chat].log :
            chats[chat].log[i].draft # Missing => chats[chat].log[i].event \in Wire!ChatEvent
    /\ DOMAIN calls = Callers
    /\ \A c \in Callers : CallTypes(c)

SettledAs(c, tag) == calls[c].at = "settled" /\ calls[c].outcome.tag = tag
AnsweredTo(c, op) == SettledAs(c, "answered") /\ calls[c].request.op = op
AnswerFor(c) == calls[c].outcome.answer

(* Whatever a caller has filled in satisfies the schema of its request: no *)
(* call is rejected by Value.Parse before it is sent.                      *)
ArgumentsParse ==
    \A c \in Callers : SettledAs(c, "rejected") => calls[c].tries > 0

(* Whatever OpenChat sends that satisfies its schema is answered with what *)
(* domain/response.ts and domain/event.ts declare.                         *)
AnswersAsDeclared ==
    \A c \in Callers :
        /\ AnsweredTo(c, "sendMessage") => AnswerFor(c) \in Domain!SendMessageResponse
        /\ AnsweredTo(c, "createChannel") => AnswerFor(c) \in Domain!CreateChannelResponse
        /\ AnsweredTo(c, "deleteChannel") => AnswerFor(c) \in Domain!DeleteChannelResponse
        /\ AnsweredTo(c, "chatDetails") => AnswerFor(c) \in Domain!ChatDetailsResponse
        /\ AnsweredTo(c, "chatEvents") => AnswerFor(c) \in Domain!ChatEventsResponse

(* Transfers whose memo is no number *)
EmptyMemo(transaction) ==
    transaction.tag # "NNS" /\ transaction.value.memo = <<>>

(* The contents of which the mapping makes nothing: those that name a      *)
(* token, since the schemas have no field "token"; those with an empty     *)
(* memo; those of a custom kind it does not know, or with broken data.     *)
UnreadableContent(content) ==
    \/ content.tag \in {"Prize", "P2PSwap"}
    \/ /\ content.tag = "Crypto"
       /\ \/ content.value.transfer.tag = "Pending"
          \/ EmptyMemo(content.value.transfer.value)
    \/ content.tag = "PrizeWinner" /\ EmptyMemo(content.value.transaction)
    \/ /\ content.tag = "Custom"
       /\ content.value.kind # "user_referral_card"
       /\ content.value.kind = "meme_fighter" => content.value.data = Missing

Unreadable(event) == event.tag = "Message" /\ UnreadableContent(event.value.content)

(* A page that OpenChat answers is read back in full and in order, unless  *)
(* a message in it is unreadable: then the caller gets nothing of it.      *)
PagesReadBack ==
    \A c \in Callers :
        /\ calls[c].at = "settled" /\ calls[c].request.op = "chatEvents"
        /\ calls[c].reply.tag = "Success"
        => LET sent == calls[c].reply.value.events
           IN  IF \E i \in DOMAIN sent : Unreadable(sent[i].event)
               THEN SettledAs(c, "rejected")
               ELSE /\ SettledAs(c, "answered")
                    /\ Len(AnswerFor(c).events) = Len(sent)
                    /\ \A i \in DOMAIN sent : AnswerFor(c).events[i].index = sent[i].index

(* What is read of permissions that were set: a permission of messages     *)
(* that was not set reads as "none", though the default one applies.       *)
ReadRoles(permissions) ==
    [p \in DOMAIN permissions |-> OrElse(permissions[p], "none")]

ReadPermissions(permissions) ==
    [permissions EXCEPT !.messagePermissions = ReadRoles(@),
                        !.threadPermissions = Optional(@, ReadRoles)]

(* What is read of a gate: a credential whose arguments are empty has none.*)
ReadLeafGate(gate) ==
    IF gate.kind = "credential_gate" /\ gate.credential.credentialArguments = <<>>
    THEN [gate EXCEPT !.credential.credentialArguments = Missing]
    ELSE gate

ReadGate(gate) ==
    IF gate.kind = "composite_gate"
    THEN [gate EXCEPT !.gates = [i \in DOMAIN @ |-> ReadLeafGate(@[i])]]
    ELSE ReadLeafGate(gate)

ReadGateConfig(config) == [config EXCEPT !.gate = ReadGate(@)]

(* The details of a channel made with this client are what its setters     *)
(* were given: gate, permissions, rules, visibility and the others.        *)
ChannelReadsBack ==
    \A c \in Callers : AnsweredTo(c, "chatDetails") /\ AnswerFor(c).kind = "success" =>
        LET channel == chats[TargetOf(calls[c].args)].draft
            read == AnswerFor(c)
        IN  channel # Missing =>
            /\ \A field \in {"name", "description", "isPublic", "historyVisibleToNewJoiners",
                             "messagesVisibleToNonMembers", "eventsTtl", "externalUrl"} :
                    read[field] = channel[field]
            /\ read.gateConfig = Optional(channel.gateConfig, ReadGateConfig)
            /\ read.rules.text = channel.rules.text /\ read.rules.enabled = channel.rules.enabled
            /\ (read.avatarId = Missing) = (channel.avatar = Missing)
            /\ read.permissions = ReadPermissions(channel.permissions)

(* What a caller should read of the content of a message it has sent       *)
ReadsAs(content, draft) ==
    LET filled == draft.value
    IN  CASE draft.tag = "Text" -> content = [kind |-> "text_content", text |-> filled.text]
          [] draft.tag = "Image" ->
                /\ content.kind = "image_content"
                /\ <<content.width, content.height>> = <<filled.width, filled.height>>
                /\ content.caption = filled.caption /\ content.mimeType = filled.mime_type
          [] draft.tag = "File" ->
                /\ content.kind = "file_content" /\ content.name = filled.name
                /\ content.caption = filled.caption /\ content.fileSize = filled.file_size
          [] draft.tag = "Audio" ->
                /\ content.kind = "audio_content" /\ content.caption = filled.caption
                /\ content.mimeType = filled.mime_type
          [] draft.tag = "Video" ->
                /\ content.kind = "video_content"
                /\ <<content.width, content.height>> = <<filled.width, filled.height>>
                /\ content.caption = filled.caption /\ content.mimeType = filled.mime_type
          [] draft.tag = "Giphy" ->
                /\ content.kind = "giphy_content"
                /\ content.title = filled.title /\ content.caption = filled.caption
          [] draft.tag = "Poll" ->
                /\ content.kind = "poll_content"
                /\ content.config.text = filled.config.text
                /\ content.config.options = filled.config.options
                /\ content.config.endDate = filled.config.end_date
                /\ content.config.anonymous = filled.config.anonymous
                /\ content.config.showVotesBeforeEndDate
                    = filled.config.show_votes_before_end_date
                /\ content.config.allowUserToChangeVote = filled.config.allow_user_to_change_vote
                /\ content.config.allowMultipleVotesPerUser
                    = filled.config.allow_multiple_votes_per_user

(* A message sent with this client is read back as it was filled in, with  *)
(* its flags and the id it was given, as far as that has 64 bits.          *)
SentReadsBack ==
    \A c \in Callers : AnsweredTo(c, "chatEvents") /\ AnswerFor(c).kind = "success" =>
        \A i \in DOMAIN AnswerFor(c).events :
            LET read == AnswerFor(c).events[i]
                draft == chats[TargetOf(calls[c].args)].log[read.index + 1].draft
            IN  draft # Missing =>
                /\ ReadsAs(read.event.content, draft.content)
                /\ read.event.blockLevelMarkdown = draft.blockLevelMarkdown
                /\ read.event.botContext.finalised = draft.finalised
                /\ draft.messageId \in 0 .. Width64 - 1 =>
                    read.event.messageId = draft.messageId

(* What an answer tells of an update: success, that it was done, once, and *)
(* any other, that it was not; only a rejected one may go either way.      *)
AnswerTellsOutcome ==
    \A c \in Callers :
        SettledAs(c, "answered") /\ calls[c].request.op \in Updates =>
            (calls[c].runs = 1) = (AnswerFor(c).kind = "success")

(* OpenChat is never asked for what the token does not grant: messages     *)
(* and channels that need more are refused by the client itself.           *)
OnlyGrantedSent ==
    \A c \in Callers : calls[c] # Idle /\ calls[c].tries > 0 =>
        LET request == calls[c].request
        IN  /\ request.op = "sendMessage" =>
                request.message.requiredMessagePermissions \subseteq GrantedByToken.message
            /\ request.op = "createChannel" =>
                (IF request.channel.isPublic THEN "CreatePublicChannel"
                 ELSE "CreatePrivateChannel") \in GrantedByToken.community

(* A query is sent at most MAX_RETRIES times again, and an update is done  *)
(* at most once, whatever fails.                                           *)
AttemptsBounded ==
    \A c \in Callers : calls[c] # Idle =>
        /\ calls[c].runs <= 1
        /\ calls[c].tries <= (IF calls[c].request.op \in Queries THEN MaxRetries + 1 ELSE 1)

(* Every call is answered, rejected or thrown in the end. *)
CallsSettle ==
    \A c \in Callers : calls[c] # Idle ~> calls[c].at = "settled"
=============================================================================
