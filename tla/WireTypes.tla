----------------------------- MODULE WireTypes -----------------------------
(***************************************************************************)
(* The values that OpenChat and the TypeScript SDK exchange, as the        *)
(* schemas of typebox.ts validate them: a tagged union is a record of its  *)
(* tag and its value, a literal is a tag alone, an optional field that is  *)
(* absent, like a null, is Missing, an object of any keys is the sequence  *)
(* of its entries.  Fields that the SDK neither reads nor writes are left  *)
(* out.  Principals are sent as bytes.                                     *)
(***************************************************************************)
EXTENDS Integers, Sequences

CONSTANTS
    Principals,     \* the texts of principals
    Missing         \* undefined

Literals(tags) == [tag : tags]
Tagged(name, values) == [tag : {name}, value : values]
Opt(values) == {Missing} \cup values
Pair(S, T) == S \X T
RecordOf(values) == Seq(Pair(STRING, values))

TSPrincipal == [bytes : Principals]
TSBytes == Seq(0..255)

-----------------------------------------------------------------------------
(* Roles, permissions and gates *)

GroupRole == {"Owner", "Admin", "Moderator", "Participant"}
GroupPermissionRole == {"None", "Owner", "Admins", "Moderators", "Members"}

CustomPermission == [subtype : STRING, role : GroupPermissionRole]

MessagePermissions ==
    [default : GroupPermissionRole, text : Opt(GroupPermissionRole),
     image : Opt(GroupPermissionRole), video : Opt(GroupPermissionRole),
     audio : Opt(GroupPermissionRole), file : Opt(GroupPermissionRole),
     poll : Opt(GroupPermissionRole), crypto : Opt(GroupPermissionRole),
     giphy : Opt(GroupPermissionRole), prize : Opt(GroupPermissionRole),
     p2p_swap : Opt(GroupPermissionRole), video_call : Opt(GroupPermissionRole),
     custom : Seq(CustomPermission)]

GroupPermissions ==
    [change_roles : GroupPermissionRole, update_group : GroupPermissionRole,
     add_members : GroupPermissionRole, invite_users : GroupPermissionRole,
     remove_members : GroupPermissionRole, delete_messages : GroupPermissionRole,
     pin_messages : GroupPermissionRole, react_to_messages : GroupPermissionRole,
     mention_all_members : GroupPermissionRole, start_video_call : GroupPermissionRole,
     message_permissions : MessagePermissions, thread_permissions : Opt(MessagePermissions)]

VerifiedCredentialArgumentValue == Tagged("String", STRING) \cup Tagged("Int", Int)

VerifiedCredentialGate ==
    [issuer_canister_id : TSPrincipal, issuer_origin : STRING, credential_type : STRING,
     credential_name : STRING,
     credential_arguments : RecordOf(VerifiedCredentialArgumentValue)]

SnsNeuronGate ==
    [governance_canister_id : TSPrincipal, min_stake_e8s : Opt(Nat), min_dissolve_delay : Opt(Nat)]

PaymentGate == [ledger_canister_id : TSPrincipal, amount : Nat, fee : Nat]
TokenBalanceGate == [ledger_canister_id : TSPrincipal, min_balance : Nat]

AccessGateNonComposite ==
    Literals({"DiamondMember", "LifetimeDiamondMember", "UniquePerson", "Locked",
              "ReferredByMember"})
    \cup Tagged("VerifiedCredential", VerifiedCredentialGate)
    \cup Tagged("SnsNeuron", SnsNeuronGate)
    \cup Tagged("Payment", PaymentGate)
    \cup Tagged("TokenBalance", TokenBalanceGate)

CompositeGate == [inner : Seq(AccessGateNonComposite), and : BOOLEAN]
AccessGate == AccessGateNonComposite \cup Tagged("Composite", CompositeGate)
AccessGateConfig == [gate : AccessGate, expiry : Opt(Nat)]

-----------------------------------------------------------------------------
(* Contents of messages *)

BlobReference == [canister_id : TSPrincipal, blob_id : Nat]

TextContent == [text : STRING]

ImageContent ==
    [width : Nat, height : Nat, thumbnail_data : STRING, caption : Opt(STRING),
     mime_type : STRING, blob_reference : Opt(BlobReference)]

VideoContent ==
    [width : Nat, height : Nat, thumbnail_data : STRING, caption : Opt(STRING),
     mime_type : STRING, image_blob_reference : Opt(BlobReference),
     video_blob_reference : Opt(BlobReference)]

AudioContent ==
    [caption : Opt(STRING), mime_type : STRING, blob_reference : Opt(BlobReference)]

FileContent ==
    [name : STRING, caption : Opt(STRING), mime_type : STRING, file_size : Nat,
     blob_reference : Opt(BlobReference)]

PollConfig ==
    [text : Opt(STRING), options : Seq(STRING), end_date : Opt(Nat), anonymous : BOOLEAN,
     show_votes_before_end_date : BOOLEAN, allow_multiple_votes_per_user : BOOLEAN,
     allow_user_to_change_vote : BOOLEAN]

TotalVotes ==
    Tagged("Visible", RecordOf(Seq(TSPrincipal)))
    \cup Tagged("Anonymous", RecordOf(Nat))
    \cup Tagged("Hidden", Nat)

PollVotes == [total : TotalVotes, user : Seq(Nat)]
PollContent == [config : PollConfig, votes : PollVotes, ended : BOOLEAN]

GiphyImageVariant == [width : Nat, height : Nat, url : STRING, mime_type : STRING]
GiphyContent ==
    [caption : Opt(STRING), title : STRING, desktop : GiphyImageVariant,
     mobile : GiphyImageVariant]

DeletedBy == [deleted_by : TSPrincipal, timestamp : Nat]

(* Transfers: one that is pending names its token by a symbol. *)
PendingCryptoTransactionNNS ==
    [ledger : TSPrincipal, token_symbol : STRING, amount : Nat, fee : Opt(Nat),
     memo : Opt(Nat), created : Nat]
PendingCryptoTransactionICRC1 ==
    [ledger : TSPrincipal, token_symbol : STRING, amount : Nat, fee : Nat,
     memo : Opt(TSBytes), created : Nat]
PendingCryptoTransactionICRC2 == PendingCryptoTransactionICRC1
PendingCryptoTransaction ==
    Tagged("NNS", PendingCryptoTransactionNNS)
    \cup Tagged("ICRC1", PendingCryptoTransactionICRC1)
    \cup Tagged("ICRC2", PendingCryptoTransactionICRC2)

CompletedCryptoTransactionNNS ==
    [ledger : TSPrincipal, amount : Nat, fee : Nat, memo : Nat, block_index : Nat]
CompletedCryptoTransactionICRC1 ==
    [ledger : TSPrincipal, amount : Nat, fee : Nat, memo : Opt(TSBytes), block_index : Nat]
CompletedCryptoTransactionICRC2 == CompletedCryptoTransactionICRC1
CompletedCryptoTransaction ==
    Tagged("NNS", CompletedCryptoTransactionNNS)
    \cup Tagged("ICRC1", CompletedCryptoTransactionICRC1)
    \cup Tagged("ICRC2", CompletedCryptoTransactionICRC2)

FailedCryptoTransactionNNS ==
    [ledger : TSPrincipal, amount : Nat, fee : Nat, memo : Nat, error_message : STRING]
FailedCryptoTransactionICRC1 ==
    [ledger : TSPrincipal, amount : Nat, fee : Nat, memo : Opt(TSBytes), error_message : STRING]
FailedCryptoTransactionICRC2 == FailedCryptoTransactionICRC1
FailedCryptoTransaction ==
    Tagged("NNS", FailedCryptoTransactionNNS)
    \cup Tagged("ICRC1", FailedCryptoTransactionICRC1)
    \cup Tagged("ICRC2", FailedCryptoTransactionICRC2)

CryptoTransaction ==
    Tagged("Pending", PendingCryptoTransaction)
    \cup Tagged("Completed", CompletedCryptoTransaction)
    \cup Tagged("Failed", FailedCryptoTransaction)

CryptoContent == [recipient : TSPrincipal, transfer : CryptoTransaction, caption : Opt(STRING)]

ProposalDecisionStatus ==
    {"Unspecified", "Open", "Rejected", "Adopted", "Executed", "Failed"}
ProposalRewardStatus == {"Unspecified", "AcceptVotes", "ReadyToSettle", "Settled"}
Tally == [yes : Nat, no : Nat, total : Nat, timestamp : Nat]

NnsProposal ==
    [id : Nat, topic : Nat, proposer : Nat, created : Nat, title : STRING, summary : STRING,
     url : STRING, status : ProposalDecisionStatus, reward_status : ProposalRewardStatus,
     tally : Tally, deadline : Nat, payload_text_rendering : Opt(STRING), last_updated : Nat]

SnsProposal ==
    [id : Nat, action : Nat, proposer : TSBytes, created : Nat, title : STRING,
     summary : STRING, url : STRING, status : ProposalDecisionStatus,
     reward_status : ProposalRewardStatus, tally : Tally, deadline : Nat,
     payload_text_rendering : Opt(STRING), minimum_yes_proportion_of_total : Nat,
     minimum_yes_proportion_of_exercised : Nat, last_updated : Nat]

Proposal == Tagged("NNS", NnsProposal) \cup Tagged("SNS", SnsProposal)
ProposalContent ==
    [governance_canister_id : TSPrincipal, proposal : Proposal, my_vote : Opt(BOOLEAN)]

PrizeContent ==
    [prizes_remaining : Nat, prizes_pending : Nat, winners : Seq(TSPrincipal),
     token_symbol : STRING, ledger : TSPrincipal, end_date : Nat, caption : Opt(STRING),
     diamond_only : BOOLEAN, lifetime_diamond_only : BOOLEAN, unique_person_only : BOOLEAN,
     streak_only : Nat]

PrizeWinnerContent ==
    [winner : TSPrincipal, transaction : CompletedCryptoTransaction, prize_message : Nat]

MessageReminderCreatedContent ==
    [reminder_id : Nat, remind_at : Nat, notes : Opt(STRING), hidden : BOOLEAN]
MessageReminderContent == [reminder_id : Nat, notes : Opt(STRING)]

MessageReport ==
    [reported_by : TSPrincipal, timestamp : Nat, reason_code : Nat, notes : Opt(STRING)]
ReportedMessage == [reports : Seq(MessageReport), count : Nat]

TokenInfo == [symbol : STRING, ledger : TSPrincipal, decimals : Nat, fee : Nat]
P2PSwapCompleted ==
    [accepted_by : TSPrincipal, token1_txn_in : Nat, token0_txn_out : Nat, token1_txn_out : Nat]
P2PSwapStatus ==
    Literals({"Open"})
    \cup Tagged("Cancelled", [token0_txn_out : Opt(Nat)])
    \cup Tagged("Expired", [token0_txn_out : Opt(Nat)])
    \cup Tagged("Reserved", [reserved_by : TSPrincipal])
    \cup Tagged("Accepted", [accepted_by : TSPrincipal, token1_txn_in : Nat])
    \cup Tagged("Completed", P2PSwapCompleted)
P2PSwapContent ==
    [swap_id : Nat, token0 : TokenInfo, token0_amount : Nat, token1 : TokenInfo,
     token1_amount : Nat, expires_at : Nat, caption : Opt(STRING), token0_txn_in : Nat,
     status : P2PSwapStatus]

VideoCallType == {"Broadcast", "Default"}
CallParticipant == [user_id : TSPrincipal, joined : Nat]
VideoCallContent ==
    [call_type : VideoCallType, ended : Opt(Nat), participants : Seq(CallParticipant)]

(* The JSON in data is the record of its fields, or Missing if it is none. *)
MemeFighterJson == [url : STRING, width : Nat, height : Nat]
CustomContent == [kind : STRING, data : Opt(MemeFighterJson)]

MessageContent ==
    Tagged("Text", TextContent)
    \cup Tagged("Image", ImageContent)
    \cup Tagged("Video", VideoContent)
    \cup Tagged("Audio", AudioContent)
    \cup Tagged("File", FileContent)
    \cup Tagged("Poll", PollContent)
    \cup Tagged("Crypto", CryptoContent)
    \cup Tagged("Deleted", DeletedBy)
    \cup Tagged("Giphy", GiphyContent)
    \cup Tagged("GovernanceProposal", ProposalContent)
    \cup Tagged("Prize", PrizeContent)
    \cup Tagged("PrizeWinner", PrizeWinnerContent)
    \cup Tagged("MessageReminderCreated", MessageReminderCreatedContent)
    \cup Tagged("MessageReminder", MessageReminderContent)
    \cup Tagged("ReportedMessage", ReportedMessage)
    \cup Tagged("P2PSwap", P2PSwapContent)
    \cup Tagged("VideoCall", VideoCallContent)
    \cup Tagged("Custom", CustomContent)

(* What a bot may send *)
BotMessageContent ==
    Tagged("Text", TextContent)
    \cup Tagged("Image", ImageContent)
    \cup Tagged("Video", VideoContent)
    \cup Tagged("Audio", AudioContent)
    \cup Tagged("File", FileContent)
    \cup Tagged("Poll", PollContent)
    \cup Tagged("Giphy", GiphyContent)

-----------------------------------------------------------------------------
(* Messages *)

Chat ==
    Tagged("Direct", TSPrincipal) \cup Tagged("Group", TSPrincipal)
    \cup Tagged("Channel", Pair(TSPrincipal, Nat))

ReplyContext == [chat_if_other : Opt(Pair(Chat, Opt(Nat))), event_index : Nat]

ThreadSummary ==
    [participant_ids : Seq(TSPrincipal), followed_by_me : BOOLEAN, reply_count : Nat,
     latest_event_index : Nat, latest_event_timestamp : Nat]

BotCommandArgValue ==
    Tagged("String", STRING)
    \cup Tagged("Integer", Int)
    \cup Tagged("Decimal", Int)
    \cup Tagged("Boolean", BOOLEAN)
    \cup Tagged("User", TSPrincipal)
    \cup Tagged("DateTime", Nat)
BotCommandArg == [name : STRING, value : BotCommandArgValue]
BotCommand == [name : STRING, args : Seq(BotCommandArg), initiator : TSPrincipal]
BotMessageContext == [command : Opt(BotCommand), finalised : BOOLEAN]

Tips == Seq(Pair(TSPrincipal, Seq(Pair(TSPrincipal, Nat))))

Message ==
    [message_index : Nat, message_id : Nat, sender : TSPrincipal, content : MessageContent,
     bot_context : Opt(BotMessageContext), replies_to : Opt(ReplyContext),
     reactions : Seq(Pair(STRING, Seq(TSPrincipal))), tips : Tips,
     thread_summary : Opt(ThreadSummary), edited : BOOLEAN, forwarded : BOOLEAN,
     block_level_markdown : BOOLEAN]

-----------------------------------------------------------------------------
(* Events *)

RoleChanged ==
    [user_ids : Seq(TSPrincipal), changed_by : TSPrincipal, old_role : GroupRole,
     new_role : GroupRole]
PermissionsChanged ==
    [old_permissions_v2 : GroupPermissions, new_permissions_v2 : GroupPermissions,
     changed_by : TSPrincipal]
GroupVisibilityChanged ==
    [public : Opt(BOOLEAN), messages_visible_to_non_members : Opt(BOOLEAN),
     changed_by : TSPrincipal]
GroupInviteCodeChange == {"Enabled", "Disabled", "Reset"}

ChangedBy == [changed_by : TSPrincipal]

ChatEvent ==
    Literals({"Empty", "FailedToDeserialize", "DirectChatCreated"})
    \cup Tagged("Message", Message)
    \cup Tagged("GroupChatCreated",
                [name : STRING, description : STRING, created_by : TSPrincipal])
    \cup Tagged("GroupNameChanged", ChangedBy)
    \cup Tagged("GroupDescriptionChanged", ChangedBy)
    \cup Tagged("GroupRulesChanged",
                [enabled : BOOLEAN, prev_enabled : BOOLEAN, changed_by : TSPrincipal])
    \cup Tagged("AvatarChanged", ChangedBy)
    \cup Tagged("ParticipantsAdded", [user_ids : Seq(TSPrincipal), added_by : TSPrincipal])
    \cup Tagged("ParticipantsRemoved",
                [user_ids : Seq(TSPrincipal), removed_by : TSPrincipal])
    \cup Tagged("ParticipantJoined", [user_id : TSPrincipal])
    \cup Tagged("ParticipantLeft", [user_id : TSPrincipal])
    \cup Tagged("RoleChanged", RoleChanged)
    \cup Tagged("UsersBlocked", [user_ids : Seq(TSPrincipal), blocked_by : TSPrincipal])
    \cup Tagged("UsersUnblocked", [user_ids : Seq(TSPrincipal), unblocked_by : TSPrincipal])
    \cup Tagged("UsersInvited", [user_ids : Seq(TSPrincipal), invited_by : TSPrincipal])
    \cup Tagged("MessagePinned", [message_index : Nat, pinned_by : TSPrincipal])
    \cup Tagged("MessageUnpinned", [message_index : Nat, unpinned_by : TSPrincipal])
    \cup Tagged("PermissionsChanged", PermissionsChanged)
    \cup Tagged("GroupVisibilityChanged", GroupVisibilityChanged)
    \cup Tagged("GroupInviteCodeChanged",
                [change : GroupInviteCodeChange, changed_by : TSPrincipal])
    \cup Tagged("ChatFrozen", [frozen_by : TSPrincipal, reason : Opt(STRING)])
    \cup Tagged("ChatUnfrozen", [unfrozen_by : TSPrincipal])
    \cup Tagged("EventsTimeToLiveUpdated", [updated_by : TSPrincipal, new_ttl : Opt(Nat)])
    \cup Tagged("GroupGateUpdated", [updated_by : TSPrincipal])
    \cup Tagged("MembersAddedToDefaultChannel", [count : Nat])
    \cup Tagged("ExternalUrlUpdated", [updated_by : TSPrincipal, new_url : Opt(STRING)])
    \cup Tagged("BotAdded", [user_id : TSPrincipal, added_by : TSPrincipal])
    \cup Tagged("BotRemoved", [user_id : TSPrincipal, removed_by : TSPrincipal])
    \cup Tagged("BotUpdated", [user_id : TSPrincipal, updated_by : TSPrincipal])

EventWrapperChatEvent ==
    [index : Nat, timestamp : Nat, expires_at : Opt(Nat), event : ChatEvent]

-----------------------------------------------------------------------------
(* Requests *)

AuthToken == Tagged("Jwt", STRING) \cup Tagged("ApiKey", STRING)

BotSendMessageArgs ==
    [channel_id : Opt(Nat), message_id : Opt(Nat), content : BotMessageContent,
     block_level_markdown : BOOLEAN, finalised : BOOLEAN, auth_token : AuthToken]

BotCreateChannelArgs ==
    [is_public : BOOLEAN, name : STRING, description : STRING,
     rules : [text : STRING, enabled : BOOLEAN],
     avatar : Opt([mime_type : STRING, data : STRING]),
     history_visible_to_new_joiners : BOOLEAN, messages_visible_to_non_members : BOOLEAN,
     permissions : Opt(GroupPermissions), events_ttl : Opt(Nat),
     gate_config : Opt(AccessGateConfig), external_url : Opt(STRING), auth_token : AuthToken]

BotDeleteChannelArgs == [channel_id : Nat, auth_token : AuthToken]
BotChatDetailsArgs == [channel_id : Opt(Nat), auth_token : AuthToken]

EventsSelectionCriteria ==
    Tagged("Page", [start_index : Nat, ascending : BOOLEAN, max_messages : Nat,
                    max_events : Nat])
    \cup Tagged("ByIndex", [events : Seq(Nat)])
    \cup Tagged("Window", [mid_point : Nat, max_messages : Nat, max_events : Nat])

BotChatEventsArgs ==
    [channel_id : Opt(Nat), events : EventsSelectionCriteria, auth_token : AuthToken]

-----------------------------------------------------------------------------
(* Responses *)

FrozenGroupInfo == [timestamp : Nat, frozen_by : TSPrincipal, reason : Opt(STRING)]
VideoCall == [message_index : Nat, call_type : VideoCallType]

ChatDetails ==
    [name : STRING, description : STRING, avatar_id : Opt(Nat), is_public : BOOLEAN,
     history_visible_to_new_joiners : BOOLEAN, messages_visible_to_non_members : BOOLEAN,
     permissions : GroupPermissions,
     rules : [text : STRING, version : Nat, enabled : BOOLEAN],
     events_ttl : Opt(Nat), events_ttl_last_updated : Opt(Nat),
     gate_config : Opt(AccessGateConfig), video_call_in_progress : Opt(VideoCall),
     verified : Opt(BOOLEAN), frozen : Opt(FrozenGroupInfo), date_last_pinned : Opt(Nat),
     last_updated : Nat, external_url : Opt(STRING), latest_event_index : Nat,
     latest_message_index : Opt(Nat), member_count : Nat]

EventsResponse ==
    [events : Seq(EventWrapperChatEvent), unauthorized : Seq(Nat),
     expired_event_ranges : Seq(Pair(Nat, Nat)), expired_message_ranges : Seq(Pair(Nat, Nat)),
     latest_event_index : Nat, chat_last_updated : Nat]

BotSendMessageSuccessResult ==
    [message_id : Nat, event_index : Nat, message_index : Nat, timestamp : Nat,
     expires_at : Opt(Nat)]

(* The failures, without their texts *)
BotSendMessageResponse ==
    Tagged("Success", BotSendMessageSuccessResult)
    \cup Literals({"FailedAuthentication", "InvalidRequest", "NotAuthorized", "Frozen",
                   "ThreadNotFound", "MessageAlreadyFinalised", "C2CError", "Error"})

BotCreateChannelResponse ==
    Tagged("Success", [channel_id : Nat])
    \cup Literals({"FailedAuthentication", "InvalidRequest", "NotAuthorized", "Frozen",
                   "C2CError", "Error"})

BotDeleteChannelResponse ==
    Literals({"Success", "ChannelNotFound", "FailedAuthentication", "InvalidRequest",
              "NotAuthorized", "Frozen", "C2CError", "Error"})

BotChatDetailsResponse ==
    Tagged("Success", ChatDetails)
    \cup Literals({"FailedAuthentication", "DirectChatUnsupported", "NotAuthorized",
                   "NotFound", "InternalError", "Error"})

BotChatEventsResponse ==
    Tagged("Success", EventsResponse)
    \cup Literals({"FailedAuthentication", "NotAuthorized", "NotFound", "InternalError",
                   "Error"})
=============================================================================
