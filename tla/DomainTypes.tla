---------------------------- MODULE DomainTypes ----------------------------
(***************************************************************************)
(* What the TypeScript SDK declares that its client takes and answers      *)
(* (domain/event.ts, response.ts, access.ts, permissions.ts): each value   *)
(* carries its kind, an optional field that is absent is Missing.          *)
(***************************************************************************)
EXTENDS Integers, Sequences

CONSTANTS Principals, Missing

Kinds(kinds) == [kind : kinds]
Opt(values) == {Missing} \cup values
RecordOf(values) == Seq(STRING \X values)
ObjectOf(keys, values) == [keys -> Opt(values)]

-----------------------------------------------------------------------------
(* Permissions and gates *)

PermissionRole == {"none", "moderator", "owner", "admin", "member"}

CustomPermission == [subtype : STRING, role : PermissionRole]

MessagePermissions ==
    [text : Opt(PermissionRole), image : Opt(PermissionRole), video : Opt(PermissionRole),
     audio : Opt(PermissionRole), file : Opt(PermissionRole), poll : Opt(PermissionRole),
     crypto : Opt(PermissionRole), giphy : Opt(PermissionRole), prize : Opt(PermissionRole),
     p2pSwap : Opt(PermissionRole), videoCall : Opt(PermissionRole),
     custom : Seq(CustomPermission), default : PermissionRole]

GroupPermissions ==
    [changeRoles : PermissionRole, updateGroup : PermissionRole, addMembers : PermissionRole,
     inviteUsers : PermissionRole, removeMembers : PermissionRole,
     deleteMessages : PermissionRole, pinMessages : PermissionRole,
     reactToMessages : PermissionRole, mentionAllMembers : PermissionRole,
     startVideoCall : PermissionRole, messagePermissions : MessagePermissions,
     threadPermissions : Opt(MessagePermissions)]

Credential ==
    [credentialName : STRING, issuerCanisterId : Principals, issuerOrigin : STRING,
     credentialType : STRING,
     credentialArguments : Opt(RecordOf([string : STRING] \cup [number : Int]))]

NeuronGate ==
    [kind : {"neuron_gate"}, governanceCanister : Principals, minStakeE8s : Opt(Nat),
     minDissolveDelay : Opt(Nat)]
PaymentGate ==
    [kind : {"payment_gate"}, ledgerCanister : Principals, amount : Nat, fee : Nat]
CredentialGate == [kind : {"credential_gate"}, credential : Credential]
TokenBalanceGate ==
    [kind : {"token_balance_gate"}, ledgerCanister : Principals, minBalance : Nat]

LeafGate ==
    Kinds({"diamond_gate", "lifetime_diamond_gate", "nft_gate", "unique_person_gate",
                "locked_gate", "referred_by_member_gate"})
    \cup NeuronGate
    \cup PaymentGate
    \cup CredentialGate
    \cup TokenBalanceGate

CompositeGate ==
    [kind : {"composite_gate"}, gates : Seq(LeafGate), operator : {"and", "or"}]
AccessGate == LeafGate \cup CompositeGate
AccessGateConfig == [gate : AccessGate, expiry : Opt(Nat)]

-----------------------------------------------------------------------------
(* Contents of messages *)

BlobReference == [blobId : Nat, canisterId : Principals]
DataContent == [blobReference : Opt(BlobReference)]

FileContent ==
    [kind : {"file_content"}, name : STRING, caption : Opt(STRING), mimeType : STRING,
     fileSize : Nat, blobReference : Opt(BlobReference)]
TextContent == [kind : {"text_content"}, text : STRING]
ImageContent ==
    [kind : {"image_content"}, height : Nat, width : Nat, thumbnailData : STRING,
     caption : Opt(STRING), mimeType : STRING, blobReference : Opt(BlobReference)]
MemeFighterContent ==
    [kind : {"meme_fighter_content"}, height : Nat, width : Nat, url : STRING]
VideoContent ==
    [kind : {"video_content"}, height : Nat, width : Nat, thumbnailData : STRING,
     caption : Opt(STRING), mimeType : STRING, imageData : DataContent, videoData : DataContent]
AudioContent ==
    [kind : {"audio_content"}, caption : Opt(STRING), mimeType : STRING,
     blobReference : Opt(BlobReference)]
DeletedContent == [kind : {"deleted_content"}, deletedBy : Principals, timestamp : Nat]

PollConfig ==
    [allowMultipleVotesPerUser : BOOLEAN, allowUserToChangeVote : BOOLEAN, text : Opt(STRING),
     showVotesBeforeEndDate : BOOLEAN, endDate : Opt(Nat), anonymous : BOOLEAN,
     options : Seq(STRING)]
AnonymousPollVotes == [kind : {"anonymous_poll_votes"}, votes : RecordOf(Nat)]
VisiblePollVotes ==
    [kind : {"visible_poll_votes"}, votes : RecordOf(Seq(Principals))]
HiddenPollVotes == [kind : {"hidden_poll_votes"}, votes : Nat]
TotalPollVotes == AnonymousPollVotes
                  \cup VisiblePollVotes
                  \cup HiddenPollVotes
PollVotes == [total : TotalPollVotes, user : Seq(Nat)]
PollContent ==
    [kind : {"poll_content"}, votes : PollVotes, config : PollConfig, ended : BOOLEAN]

CompletedCryptocurrencyTransfer ==
    [kind : {"completed"}, ledger : Principals, recipient : Principals, sender : Principals,
     amountE8s : Nat, feeE8s : Nat, memo : Nat, blockIndex : Nat]
PendingCryptocurrencyTransfer ==
    [kind : {"pending"}, ledger : Principals, token : STRING, recipient : Principals,
     amountE8s : Nat, feeE8s : Opt(Nat), memo : Opt(Nat), createdAtNanos : Nat]
FailedCryptocurrencyTransfer ==
    [kind : {"failed"}, ledger : Principals, recipient : Principals, amountE8s : Nat,
     feeE8s : Nat, memo : Nat, errorMessage : STRING]
CryptocurrencyContent ==
    [kind : {"crypto_content"}, caption : Opt(STRING),
     transfer : CompletedCryptocurrencyTransfer
                \cup PendingCryptocurrencyTransfer
                \cup FailedCryptocurrencyTransfer]

GiphyImage == [height : Nat, width : Nat, url : STRING, mimeType : STRING]
GiphyContent ==
    [kind : {"giphy_content"}, caption : Opt(STRING), title : STRING, desktop : GiphyImage,
     mobile : GiphyImage]

ProposalDecisionStatus ==
    {"Unspecified", "Failed", "Open", "Rejected", "Executed", "Adopted"}
ProposalRewardStatus == {"Unspecified", "AcceptVotes", "ReadyToSettle", "Settled"}
Tally == [yes : Nat, no : Nat, total : Nat, timestamp : Nat]
(* The topic is a numeric enum, which takes any number; percentages are    *)
(* numbers.                                                                *)
NnsProposal ==
    [kind : {"nns"}, topic : Nat, id : Nat, url : STRING, status : ProposalDecisionStatus,
     tally : Tally, title : STRING, created : Nat, deadline : Nat, lastUpdated : Nat,
     rewardStatus : ProposalRewardStatus, summary : STRING, proposer : [decimal : Nat],
     payloadTextRendering : Opt(STRING), minYesPercentageOfTotal : Nat,
     minYesPercentageOfExercised : Nat]
SnsProposal ==
    [kind : {"sns"}, action : Nat, id : Nat, url : STRING, status : ProposalDecisionStatus,
     tally : Tally, title : STRING, created : Nat, deadline : Nat, lastUpdated : Nat,
     rewardStatus : ProposalRewardStatus, summary : STRING, proposer : [hex : Seq(0..255)],
     payloadTextRendering : Opt(STRING), minYesPercentageOfTotal : Nat,
     minYesPercentageOfExercised : Nat]
ProposalContent ==
    [kind : {"proposal_content"}, governanceCanisterId : Principals,
     proposal : NnsProposal \cup SnsProposal, myVote : Opt(BOOLEAN)]

PrizeContent ==
    [kind : {"prize_content"}, prizesRemaining : Nat, prizesPending : Nat,
     diamondOnly : BOOLEAN, lifetimeDiamondOnly : BOOLEAN, uniquePersonOnly : BOOLEAN,
     streakOnly : Nat, winners : Seq(Principals), token : STRING, endDate : Nat,
     caption : Opt(STRING)]
PrizeWinnerContent ==
    [kind : {"prize_winner_content"}, transaction : CompletedCryptocurrencyTransfer,
     prizeMessageIndex : Nat]

TokenInfo == [fee : Nat, decimals : Nat, symbol : STRING, ledger : Principals]
P2PSwapStatus ==
    Kinds({"p2p_swap_open"})
    \cup [kind : {"p2p_swap_reserved"}, reservedBy : Principals]
    \cup [kind : {"p2p_swap_accepted"}, acceptedBy : Principals, token1TxnIn : Nat]
    \cup [kind : {"p2p_swap_cancelled", "p2p_swap_expired"}, token0TxnOut : Opt(Nat)]
    \cup [kind : {"p2p_swap_completed"}, acceptedBy : Principals, token1TxnIn : Nat,
          token0TxnOut : Nat, token1TxnOut : Nat]
P2PSwapContent ==
    [kind : {"p2p_swap_content"}, token0 : TokenInfo, token1 : TokenInfo, token0Amount : Nat,
     token1Amount : Nat, caption : Opt(STRING), expiresAt : Nat, status : P2PSwapStatus,
     swapId : Nat, token0TxnIn : Nat]

MessageReminderCreatedContent ==
    [kind : {"message_reminder_created_content"}, notes : Opt(STRING), remindAt : Nat,
     reminderId : Nat, hidden : BOOLEAN]
MessageReminderContent ==
    [kind : {"message_reminder_content"}, notes : Opt(STRING), reminderId : Nat]

MessageReport ==
    [notes : Opt(STRING), reasonCode : Nat, timestamp : Nat, reportedBy : Principals]
ReportedMessageContent ==
    [kind : {"reported_message_content"}, total : Nat, reports : Seq(MessageReport)]

VideoCallType == {"default", "broadcast"}
VideoCallParticipant == [userId : Principals, joined : Nat]
VideoCallContent ==
    [kind : {"video_call_content"}, participants : Seq(VideoCallParticipant),
     ended : Opt(Nat), callType : VideoCallType]

(* The kinds that no message of OpenChat is mapped to are left out:        *)
(* blocked and placeholder contents, and the initial ones.                 *)
MessageContent ==
    FileContent
    \cup TextContent
    \cup ImageContent
    \cup VideoContent
    \cup AudioContent
    \cup DeletedContent
    \cup PollContent
    \cup CryptocurrencyContent
    \cup GiphyContent
    \cup ProposalContent
    \cup PrizeContent
    \cup P2PSwapContent
    \cup PrizeWinnerContent
    \cup MessageReminderCreatedContent
    \cup MessageReminderContent
    \cup ReportedMessageContent
    \cup Kinds({"user_referral_card"})
    \cup MemeFighterContent
    \cup VideoCallContent

-----------------------------------------------------------------------------
(* Messages *)

ChatIdentifier ==
    [kind : {"direct_chat"}, userId : Principals]
    \cup [kind : {"group_chat"}, groupId : Principals]
    \cup [kind : {"channel"}, communityId : Principals, channelId : Nat]
MessageContext == [chatId : ChatIdentifier, threadRootMessageIndex : Opt(Nat)]
ReplyContext ==
    [kind : {"reply_context"}, eventIndex : Nat, sourceContext : Opt(MessageContext)]

Reaction == [reaction : STRING, userIds : SUBSET Principals]
ThreadSummary ==
    [participantIds : SUBSET Principals, followedByMe : BOOLEAN, numberOfReplies : Nat,
     latestEventIndex : Nat, latestEventTimestamp : Nat]
TipsReceived == ObjectOf(Principals, ObjectOf(Principals, Nat))

CommandArg ==
    [kind : {"boolean"}, name : STRING, value : BOOLEAN]
    \cup [kind : {"integer", "decimal"}, name : STRING, value : Int]
    \cup [kind : {"string"}, name : STRING, value : STRING]
    \cup [kind : {"user"}, name : STRING, userId : Principals]
    \cup [kind : {"dateTime"}, name : STRING, value : Nat]
BotContextCommand == [name : STRING, args : Seq(CommandArg), initiator : Principals]
BotMessageContext == [command : Opt(BotContextCommand), finalised : BOOLEAN]

MessageEvent ==
    [kind : {"message"}, messageId : Nat, messageIndex : Nat, sender : Principals,
     content : MessageContent, repliesTo : Opt(ReplyContext), reactions : Seq(Reaction),
     tips : TipsReceived, edited : BOOLEAN, forwarded : BOOLEAN, deleted : BOOLEAN,
     thread : Opt(ThreadSummary), blockLevelMarkdown : BOOLEAN,
     botContext : Opt(BotMessageContext)]

-----------------------------------------------------------------------------
(* Events *)

ByUser(kinds) == [kind : kinds, changedBy : Principals]

GroupRulesChanged ==
    [kind : {"rules_changed"}, enabled : BOOLEAN, enabledPrev : BOOLEAN,
     changedBy : Principals]
RoleChanged ==
    [kind : {"role_changed"}, userIds : Seq(Principals), changedBy : Principals,
     oldRole : PermissionRole, newRole : PermissionRole]
PermissionsChanged ==
    [kind : {"permissions_changed"}, oldPermissions : GroupPermissions,
     newPermissions : GroupPermissions, changedBy : Principals]
GroupVisibilityChanged ==
    [kind : {"group_visibility_changed"}, public : Opt(BOOLEAN),
     messagesVisibleToNonMembers : Opt(BOOLEAN), changedBy : Principals]
GroupInviteCodeChange == {"enabled", "disabled", "reset"}
GroupInviteCodeChanged ==
    [kind : {"group_invite_code_changed"}, change : GroupInviteCodeChange,
     changedBy : Principals]

ChatEvent ==
    Kinds({"empty", "direct_chat_created"})
    \cup MessageEvent
    \cup [kind : {"group_chat_created"}, name : STRING, description : STRING,
          created_by : Principals]
    \cup ByUser({"name_changed", "desc_changed", "avatar_changed"})
    \cup GroupRulesChanged
    \cup [kind : {"members_added"}, userIds : Seq(Principals), addedBy : Principals]
    \cup [kind : {"members_removed"}, userIds : Seq(Principals), removedBy : Principals]
    \cup [kind : {"member_joined", "member_left"}, userId : Principals]
    \cup RoleChanged
    \cup [kind : {"users_blocked"}, userIds : Seq(Principals), blockedBy : Principals]
    \cup [kind : {"users_unblocked"}, userIds : Seq(Principals), unblockedBy : Principals]
    \cup [kind : {"message_pinned"}, pinnedBy : Principals, messageIndex : Nat]
    \cup [kind : {"message_unpinned"}, unpinnedBy : Principals, messageIndex : Nat]
    \cup PermissionsChanged
    \cup GroupVisibilityChanged
    \cup GroupInviteCodeChanged
    \cup [kind : {"chat_frozen"}, frozenBy : Principals, reason : Opt(STRING)]
    \cup [kind : {"chat_unfrozen"}, unfrozenBy : Principals]
    \cup [kind : {"events_ttl_updated"}, updatedBy : Principals, newTimeToLive : Opt(Nat)]
    \cup [kind : {"gate_updated"}, updatedBy : Principals]
    \cup [kind : {"users_invited"}, userIds : Seq(Principals), invitedBy : Principals]
    \cup [kind : {"members_added_to_default_channel"}, count : Nat]
    \cup [kind : {"external_url_updated"}, newUrl : Opt(STRING), updatedBy : Principals]
    \cup [kind : {"bot_added"}, userId : Principals, addedBy : Principals]
    \cup [kind : {"bot_removed"}, userId : Principals, removedBy : Principals]
    \cup [kind : {"bot_updated"}, userId : Principals, updatedBy : Principals]

ChatEventWrapper ==
    [index : Nat, timestamp : Nat, expiresAt : Opt(Nat), event : ChatEvent]

-----------------------------------------------------------------------------
(* Requests and answers *)

ChatEventsCriteria ==
    [kind : {"chat_events_page"}, startEventIndex : Nat, ascending : BOOLEAN,
          maxMessages : Nat, maxEvents : Nat]
    \cup [kind : {"chat_events_by_index"}, eventIndexes : Seq(Nat)]
    \cup [kind : {"chat_events_window"}, midPointMessageIndex : Nat, maxMessages : Nat,
          maxEvents : Nat]

SendMessageSuccess ==
    [kind : {"success"}, messageId : Nat, eventIndex : Nat, messageIndex : Nat,
     timestamp : Nat, expiresAt : Opt(Nat)]
SendMessageFailure ==
    Kinds({"failed_authentication", "invalid_request", "not_authorized", "frozen",
           "thread_not_found", "message_already_finalized", "server_error"})
SendMessageResponse == SendMessageSuccess \cup SendMessageFailure

CreateChannelSuccess == [kind : {"success"}, channelId : Nat]
CreateChannelFailure ==
    Kinds({"failed_authentication", "invalid_request", "not_authorized", "frozen",
           "server_error"})
CreateChannelResponse == CreateChannelSuccess \cup CreateChannelFailure

DeleteChannelFailure ==
    Kinds({"channel_not_found", "failed_authentication", "invalid_request",
           "not_authorized", "frozen", "server_error"})
DeleteChannelResponse == Kinds({"success"}) \cup DeleteChannelFailure

VideoCall == [messageIndex : Nat, callType : VideoCallType]
FrozenGroupInfo == [timestamp : Nat, frozenBy : Principals, reason : Opt(STRING)]
VersionedRules == [text : STRING, version : Nat, enabled : BOOLEAN]

ChatDetailsSuccess ==
    [kind : {"success"}, name : STRING, description : STRING, avatarId : Opt(Nat),
     isPublic : BOOLEAN, historyVisibleToNewJoiners : BOOLEAN,
     messagesVisibleToNonMembers : BOOLEAN, permissions : GroupPermissions,
     rules : VersionedRules, eventsTtl : Opt(Nat), eventsTtlLastUpdated : Opt(Nat),
     gateConfig : Opt(AccessGateConfig), videoCallInProgress : Opt(VideoCall),
     verified : BOOLEAN, frozen : Opt(FrozenGroupInfo), dateLastPinned : Opt(Nat),
     lastUpdated : Nat, externalUrl : Opt(STRING), latestEventIndex : Nat,
     latestMessageIndex : Opt(Nat), memberCount : Nat]
ChatDetailsFailure ==
    Kinds({"failed_authentication", "direct_chat_unsupported", "not_authorized",
           "not_found", "server_error"})
ChatDetailsResponse == ChatDetailsSuccess \cup ChatDetailsFailure

ChatEventsSuccess ==
    [kind : {"success"}, events : Seq(ChatEventWrapper), unauthorized : Seq(Nat),
     expiredEventRanges : Seq(Nat \X Nat), expiredMessageRanges : Seq(Nat \X Nat),
     latestEventIndex : Nat, chatLastUpdated : Nat]
ChatEventsFailure ==
    Kinds({"failed_authentication", "not_authorized", "not_found", "server_error"})
ChatEventsResponse == ChatEventsSuccess \cup ChatEventsFailure
=============================================================================
