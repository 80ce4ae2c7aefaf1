------------------------------ MODULE Mapping ------------------------------
(***************************************************************************)
(* mapping/index.ts of the TypeScript SDK: what is made of the values that *)
(* OpenChat sends (WireTypes) for the users of the client (DomainTypes),   *)
(* and of their values for OpenChat.  A mapper that throws is Thrown.      *)
(***************************************************************************)
EXTENDS Integers, Sequences, SequencesExt, Maps

CONSTANTS
    Principals,
    Missing,
    Thrown,
    Width32, Width64,   \* 2^32 and 2^64
    E8s                 \* the fractions of a token

ASSUME MappingAssumption ==
    /\ Missing # Thrown
    /\ Width32 \in Nat \ {0} /\ Width64 \in Nat \ {0} /\ E8s \in Nat \ {0}

-----------------------------------------------------------------------------
(* Helpers *)

(* optional and apiOptional *)
Optional(value, F(_)) == IF value = Missing THEN Missing ELSE F(value)
OrElse(value, default) == IF value = Missing THEN default ELSE value

(* A record or a sequence is built of parts: if one throws, so does it.    *)
Built(f) == IF \E x \in DOMAIN f : f[x] = Thrown THEN Thrown ELSE f
Mapped(seq, F(_)) == Built([i \in DOMAIN seq |-> F(seq[i])])

(* A field that the schema does not have is undefined. *)
Field(record, name) == IF name \in DOMAIN record THEN record[name] ELSE Missing

(* A principal is text already where it comes from JSON. *)
PrincipalBytesToString(value) == IF value \in Principals THEN value ELSE value.bytes
PrincipalStringToBytes(principal) == [bytes |-> principal]
PrincipalTexts(seq) == Mapped(seq, PrincipalBytesToString)

ToBigInt32(n) == n % Width32
ToBigInt64(n) == n % Width64

(* bytesToBigint: there is no number in an empty text. *)
BytesToBigint(bytes) ==
    LET number[i \in 0 .. Len(bytes)] ==
            IF i = 0 THEN 0 ELSE 256 * number[i - 1] + bytes[i]
    IN  IF bytes = <<>> THEN Thrown ELSE number[Len(bytes)]
BytesToHexString(bytes) == [hex |-> bytes]

-----------------------------------------------------------------------------
(* Permissions *)

PermissionRole(api) ==
    CASE api \in {"Admin", "Admins"} -> "admin"
      [] api \in {"Members", "Participant"} -> "member"
      [] api \in {"Moderators", "Moderator"} -> "moderator"
      [] api = "None" -> "none"
      [] api = "Owner" -> "owner"

(* Fault: roles of members are sent where those of permissions belong. *)
FaultyApiPermissionRole(domain) ==
    CASE domain = "admin" -> "Admin"
      [] domain = "member" -> "Participant"
      [] domain = "moderator" -> "Moderator"
      [] domain = "none" -> "None"
      [] domain = "owner" -> "Owner"

ApiPermissionRole(domain) ==
    CASE domain = "admin" -> "Admins"
      [] domain = "member" -> "Members"
      [] domain = "moderator" -> "Moderators"
      [] domain = "none" -> "None"
      [] domain = "owner" -> "Owner"

(* A role that is not given is read as "none", the default one too. *)
RoleOrNone(api) == OrElse(Optional(api, PermissionRole), "none")

MessagePermissions(api) ==
    [audio |-> RoleOrNone(api.audio), video |-> RoleOrNone(api.video),
     videoCall |-> RoleOrNone(api.video_call),
     custom |-> Mapped(api.custom,
                    LAMBDA p : [subtype |-> p.subtype, role |-> PermissionRole(p.role)]),
     file |-> RoleOrNone(api.file), poll |-> RoleOrNone(api.poll),
     text |-> RoleOrNone(api.text), crypto |-> RoleOrNone(api.crypto),
     giphy |-> RoleOrNone(api.giphy), default |-> RoleOrNone(api.default),
     image |-> RoleOrNone(api.image), prize |-> RoleOrNone(api.prize),
     p2pSwap |-> RoleOrNone(api.p2p_swap)]

GroupPermissions(api) ==
    [changeRoles |-> PermissionRole(api.change_roles),
     updateGroup |-> PermissionRole(api.update_group),
     addMembers |-> PermissionRole(api.add_members),
     inviteUsers |-> PermissionRole(api.invite_users),
     removeMembers |-> PermissionRole(api.remove_members),
     deleteMessages |-> PermissionRole(api.delete_messages),
     pinMessages |-> PermissionRole(api.pin_messages),
     reactToMessages |-> PermissionRole(api.react_to_messages),
     mentionAllMembers |-> PermissionRole(api.mention_all_members),
     startVideoCall |-> PermissionRole(api.start_video_call),
     messagePermissions |-> MessagePermissions(api.message_permissions),
     threadPermissions |-> Optional(api.thread_permissions, MessagePermissions)]

ApiMessagePermissions(domain) ==
    LET role(value) == Optional(value, ApiPermissionRole)
    IN  [audio |-> role(domain.audio), video |-> role(domain.video),
         video_call |-> role(domain.videoCall),
         custom |-> Mapped(domain.custom,
                        LAMBDA p : [subtype |-> p.subtype, role |-> ApiPermissionRole(p.role)]),
         file |-> role(domain.file), poll |-> role(domain.poll), text |-> role(domain.text),
         crypto |-> role(domain.crypto), giphy |-> role(domain.giphy),
         default |-> ApiPermissionRole(domain.default), image |-> role(domain.image),
         prize |-> role(domain.prize), p2p_swap |-> role(domain.p2pSwap)]

ApiGroupPermissions(domain) ==
    [mention_all_members |-> ApiPermissionRole(domain.mentionAllMembers),
     delete_messages |-> ApiPermissionRole(domain.deleteMessages),
     remove_members |-> ApiPermissionRole(domain.removeMembers),
     update_group |-> ApiPermissionRole(domain.updateGroup),
     message_permissions |-> ApiMessagePermissions(domain.messagePermissions),
     invite_users |-> ApiPermissionRole(domain.inviteUsers),
     thread_permissions |-> Optional(domain.threadPermissions, ApiMessagePermissions),
     change_roles |-> ApiPermissionRole(domain.changeRoles),
     start_video_call |-> ApiPermissionRole(domain.startVideoCall),
     add_members |-> ApiPermissionRole(domain.addMembers),
     pin_messages |-> ApiPermissionRole(domain.pinMessages),
     react_to_messages |-> ApiPermissionRole(domain.reactToMessages)]

-----------------------------------------------------------------------------
(* Gates *)

CredentialArguments(api) ==
    [i \in DOMAIN api |->
        <<api[i][1], IF api[i][2].tag = "String" THEN [string |-> api[i][2].value]
                                                 ELSE [number |-> api[i][2].value]>>]

ApiCredentialArguments(domain) ==
    LET arguments == OrElse(domain, <<>>)
    IN  [i \in DOMAIN arguments |->
            <<arguments[i][1],
              IF "number" \in DOMAIN arguments[i][2]
              THEN [tag |-> "Int", value |-> arguments[i][2].number]
              ELSE [tag |-> "String", value |-> arguments[i][2].string]>>]

LiteralGates ==
    [DiamondMember |-> "diamond_gate", LifetimeDiamondMember |-> "lifetime_diamond_gate",
     UniquePerson |-> "unique_person_gate", Locked |-> "locked_gate",
     ReferredByMember |-> "referred_by_member_gate"]

(* accessGate of a gate that is no composite *)
LeafGate(api) ==
    CASE api.tag \in DOMAIN LiteralGates -> [kind |-> LiteralGates[api.tag]]
      [] api.tag = "SnsNeuron" ->
            [kind |-> "neuron_gate",
             minDissolveDelay |-> api.value.min_dissolve_delay,
             minStakeE8s |-> api.value.min_stake_e8s,
             governanceCanister |-> PrincipalBytesToString(api.value.governance_canister_id)]
      [] api.tag = "VerifiedCredential" ->
            [kind |-> "credential_gate",
             credential |->
                [issuerCanisterId |-> PrincipalBytesToString(api.value.issuer_canister_id),
                 issuerOrigin |-> api.value.issuer_origin,
                 credentialType |-> api.value.credential_type,
                 credentialName |-> api.value.credential_name,
                 credentialArguments |->
                    IF api.value.credential_arguments = <<>> THEN Missing
                    ELSE CredentialArguments(api.value.credential_arguments)]]
      [] api.tag = "Payment" ->
            [kind |-> "payment_gate",
             ledgerCanister |-> PrincipalBytesToString(api.value.ledger_canister_id),
             amount |-> api.value.amount, fee |-> api.value.fee]
      [] api.tag = "TokenBalance" ->
            [kind |-> "token_balance_gate",
             ledgerCanister |-> PrincipalBytesToString(api.value.ledger_canister_id),
             minBalance |-> api.value.min_balance]

(* accessGate *)
AccessGate(api) ==
    IF api.tag = "Composite"
    THEN [kind |-> "composite_gate", operator |-> IF api.value.and THEN "and" ELSE "or",
          gates |-> Mapped(api.value.inner, LeafGate)]
    ELSE LeafGate(api)

AccessGateConfig(api) == [gate |-> AccessGate(api.gate), expiry |-> api.expiry]

(* There is no nft_gate for OpenChat. *)
ApiLeafAccessGate(domain) ==
    CASE domain.kind \in Range(LiteralGates) ->
            [tag |-> CHOOSE tag \in DOMAIN LiteralGates : LiteralGates[tag] = domain.kind]
      [] domain.kind = "neuron_gate" ->
            [tag |-> "SnsNeuron",
             value |-> [governance_canister_id |-> PrincipalStringToBytes(domain.governanceCanister),
                        min_stake_e8s |-> domain.minStakeE8s,
                        min_dissolve_delay |-> domain.minDissolveDelay]]
      [] domain.kind = "payment_gate" ->
            [tag |-> "Payment",
             value |-> [ledger_canister_id |-> PrincipalStringToBytes(domain.ledgerCanister),
                        amount |-> domain.amount, fee |-> domain.fee]]
      [] domain.kind = "credential_gate" ->
            [tag |-> "VerifiedCredential",
             value |-> [credential_name |-> domain.credential.credentialName,
                        issuer_canister_id |->
                            PrincipalStringToBytes(domain.credential.issuerCanisterId),
                        issuer_origin |-> domain.credential.issuerOrigin,
                        credential_type |-> domain.credential.credentialType,
                        credential_arguments |->
                            ApiCredentialArguments(domain.credential.credentialArguments)]]
      [] domain.kind = "token_balance_gate" ->
            [tag |-> "TokenBalance",
             value |-> [ledger_canister_id |-> PrincipalStringToBytes(domain.ledgerCanister),
                        min_balance |-> domain.minBalance]]
      [] OTHER -> Thrown

(* Fault: the gates of a composite are taken for alternatives. *)
FaultyApiAccessGate(domain) ==
    IF domain.kind = "composite_gate"
    THEN LET inner == Mapped(domain.gates, ApiLeafAccessGate)
         IN  IF inner = Thrown THEN Thrown
             ELSE [tag |-> "Composite", value |-> [and |-> FALSE, inner |-> inner]]
    ELSE ApiLeafAccessGate(domain)

ApiAccessGate(domain) ==
    IF domain.kind = "composite_gate"
    THEN LET inner == Mapped(domain.gates, ApiLeafAccessGate)
         IN  IF inner = Thrown THEN Thrown
             ELSE [tag |-> "Composite",
                   value |-> [and |-> domain.operator = "and", inner |-> inner]]
    ELSE ApiLeafAccessGate(domain)

ApiAccessGateConfig(domain) ==
    Built([gate |-> ApiAccessGate(domain.gate), expiry |-> domain.expiry])

ApiAuthToken(auth) ==
    [tag |-> IF auth.kind = "api_key" THEN "ApiKey" ELSE "Jwt", value |-> auth.token]

ApiBlobReference(domain) ==
    [blob_id |-> domain.blobId, canister_id |-> PrincipalStringToBytes(domain.canisterId)]

-----------------------------------------------------------------------------
(* Contents of messages *)

BlobReference(value) ==
    [blobId |-> value.blob_id, canisterId |-> PrincipalBytesToString(value.canister_id)]

FileContent(value) ==
    [kind |-> "file_content", name |-> value.name, mimeType |-> value.mime_type,
     blobReference |-> Optional(value.blob_reference, BlobReference),
     caption |-> value.caption, fileSize |-> value.file_size]

AudioContent(value) ==
    [kind |-> "audio_content", mimeType |-> value.mime_type,
     blobReference |-> Optional(value.blob_reference, BlobReference),
     caption |-> value.caption]

TextContent(value) == [kind |-> "text_content", text |-> value.text]

ImageContent(value) ==
    [kind |-> "image_content", height |-> value.height, mimeType |-> value.mime_type,
     blobReference |-> Optional(value.blob_reference, BlobReference),
     thumbnailData |-> value.thumbnail_data, caption |-> value.caption, width |-> value.width]

VideoContent(value) ==
    [kind |-> "video_content", height |-> value.height, mimeType |-> value.mime_type,
     videoData |-> [blobReference |-> Optional(value.video_blob_reference, BlobReference)],
     imageData |-> [blobReference |-> Optional(value.image_blob_reference, BlobReference)],
     thumbnailData |-> value.thumbnail_data, caption |-> value.caption, width |-> value.width]

DeletedContent(value) ==
    [kind |-> "deleted_content", deletedBy |-> PrincipalBytesToString(value.deleted_by),
     timestamp |-> value.timestamp]

(* token: its last test is on the fields of an object. *)
Token(value) ==
    IF value = Missing THEN Thrown
    ELSE CASE value.tag = "InternetComputer" -> "ICP"
           [] value.tag = "SNS1" -> "SNS1"
           [] value.tag = "CKBTC" -> "ckBTC"
           [] value.tag = "CHAT" -> "CHAT"
           [] value.tag = "KINIC" -> "KINIC"
           [] value.tag = "Other" -> value.value
           [] OTHER -> Thrown

(* The pending transactions of the schema have no field "token". *)
PendingCryptoTransfer(value, recipient) ==
    CASE value.tag = "NNS" ->
            Built([kind |-> "pending", ledger |-> PrincipalBytesToString(value.value.ledger),
                   token |-> Token(Field(value.value, "token")), recipient |-> recipient,
                   amountE8s |-> value.value.amount, feeE8s |-> value.value.fee,
                   memo |-> value.value.memo, createdAtNanos |-> value.value.created])
      [] value.tag = "ICRC1" ->
            Built([kind |-> "pending", ledger |-> PrincipalBytesToString(value.value.ledger),
                   token |-> Token(Field(value.value, "token")), recipient |-> recipient,
                   amountE8s |-> value.value.amount, feeE8s |-> value.value.fee,
                   memo |-> Optional(value.value.memo, BytesToBigint),
                   createdAtNanos |-> value.value.created])
      [] OTHER -> Thrown

(* Fault: nothing stands for a memo that is not there. *)
FaultyTransferMemo(value) ==
    IF value.tag = "NNS" THEN value.value.memo
    ELSE Optional(value.value.memo, BytesToBigint)

(* A memo of ICRC1 or ICRC2 is bytes, and 0 if there is none. *)
TransferMemo(value) ==
    IF value.tag = "NNS" THEN value.value.memo
    ELSE OrElse(Optional(value.value.memo, BytesToBigint), 0)

CompletedCryptoTransfer(value, sender, recipient) ==
    Built([kind |-> "completed", ledger |-> PrincipalBytesToString(value.value.ledger),
           recipient |-> recipient, sender |-> sender, amountE8s |-> value.value.amount,
           feeE8s |-> value.value.fee, memo |-> TransferMemo(value),
           blockIndex |-> value.value.block_index])

FailedCryptoTransfer(value, recipient) ==
    Built([kind |-> "failed", ledger |-> PrincipalBytesToString(value.value.ledger),
           recipient |-> recipient, amountE8s |-> value.value.amount,
           feeE8s |-> value.value.fee, memo |-> TransferMemo(value),
           errorMessage |-> value.value.error_message])

CryptoTransfer(value, sender, recipient) ==
    CASE value.tag = "Pending" -> PendingCryptoTransfer(value.value, recipient)
      [] value.tag = "Completed" -> CompletedCryptoTransfer(value.value, sender, recipient)
      [] value.tag = "Failed" -> FailedCryptoTransfer(value.value, recipient)

CryptoContent(value, sender) ==
    Built([kind |-> "crypto_content", caption |-> value.caption,
           transfer |-> CryptoTransfer(value.transfer, sender,
                                       PrincipalBytesToString(value.recipient))])

(* Fault: the two flags on votes are mixed up. *)
FaultyPollConfig(value) ==
    [allowMultipleVotesPerUser |-> value.allow_user_to_change_vote,
     allowUserToChangeVote |-> value.allow_multiple_votes_per_user, text |-> value.text,
     showVotesBeforeEndDate |-> value.show_votes_before_end_date,
     endDate |-> value.end_date, anonymous |-> value.anonymous, options |-> value.options]

PollConfig(value) ==
    [allowMultipleVotesPerUser |-> value.allow_multiple_votes_per_user,
     allowUserToChangeVote |-> value.allow_user_to_change_vote, text |-> value.text,
     showVotesBeforeEndDate |-> value.show_votes_before_end_date,
     endDate |-> value.end_date, anonymous |-> value.anonymous, options |-> value.options]

TotalPollVotes(value) ==
    CASE value.tag = "Anonymous" -> [kind |-> "anonymous_poll_votes", votes |-> value.value]
      [] value.tag = "Visible" ->
            [kind |-> "visible_poll_votes",
             votes |-> [i \in DOMAIN value.value |->
                            <<value.value[i][1], PrincipalTexts(value.value[i][2])>>]]
      [] value.tag = "Hidden" -> [kind |-> "hidden_poll_votes", votes |-> value.value]

PollContent(value) ==
    [kind |-> "poll_content",
     votes |-> [total |-> TotalPollVotes(value.votes.total), user |-> value.votes.user],
     config |-> PollConfig(value.config), ended |-> value.ended]

GiphyImageVariant(value) ==
    [width |-> value.width, height |-> value.height, url |-> value.url,
     mimeType |-> value.mime_type]

GiphyContent(value) ==
    [kind |-> "giphy_content", title |-> value.title, caption |-> value.caption,
     desktop |-> GiphyImageVariant(value.desktop), mobile |-> GiphyImageVariant(value.mobile)]

(* An unknown status is "Unspecified". *)
ProposalDecisionStatus(value) ==
    IF value \in {"Failed", "Open", "Rejected", "Executed", "Adopted"} THEN value
    ELSE "Unspecified"
ProposalRewardStatus(value) ==
    IF value \in {"AcceptVotes", "ReadyToSettle", "Settled"} THEN value ELSE "Unspecified"

Tally(value) ==
    [yes |-> value.yes \div E8s, no |-> value.no \div E8s, total |-> value.total \div E8s,
     timestamp |-> value.timestamp]

(* Bound: the proportions of a proposal are whole percents. *)
Proposal(value) ==
    LET p == value.value
    IN  IF value.tag = "NNS"
        THEN [kind |-> "nns", id |-> p.id, topic |-> p.topic,
              proposer |-> [decimal |-> p.proposer], title |-> p.title, summary |-> p.summary,
              url |-> p.url, status |-> ProposalDecisionStatus(p.status),
              rewardStatus |-> ProposalRewardStatus(p.reward_status), tally |-> Tally(p.tally),
              lastUpdated |-> p.last_updated, created |-> p.created, deadline |-> p.deadline,
              payloadTextRendering |-> p.payload_text_rendering,
              minYesPercentageOfTotal |-> 3, minYesPercentageOfExercised |-> 50]
        ELSE [kind |-> "sns", id |-> p.id, action |-> p.action,
              proposer |-> BytesToHexString(p.proposer), title |-> p.title,
              summary |-> p.summary, url |-> p.url,
              status |-> ProposalDecisionStatus(p.status),
              rewardStatus |-> ProposalRewardStatus(p.reward_status), tally |-> Tally(p.tally),
              lastUpdated |-> p.last_updated, created |-> p.created, deadline |-> p.deadline,
              payloadTextRendering |-> p.payload_text_rendering,
              minYesPercentageOfTotal |-> p.minimum_yes_proportion_of_total \div 100,
              minYesPercentageOfExercised |-> p.minimum_yes_proportion_of_exercised \div 100]

ProposalContent(value) ==
    [kind |-> "proposal_content",
     governanceCanisterId |-> PrincipalBytesToString(value.governance_canister_id),
     proposal |-> Proposal(value.proposal), myVote |-> value.my_vote]

(* The schema has the field "token_symbol", not "token". *)
PrizeContent(value) ==
    Built([kind |-> "prize_content", prizesRemaining |-> value.prizes_remaining,
           prizesPending |-> value.prizes_pending, diamondOnly |-> value.diamond_only,
           lifetimeDiamondOnly |-> value.lifetime_diamond_only,
           uniquePersonOnly |-> value.unique_person_only, streakOnly |-> value.streak_only,
           winners |-> PrincipalTexts(value.winners), token |-> Token(Field(value, "token")),
           endDate |-> value.end_date, caption |-> value.caption])

PrizeWinnerContent(sender, value) ==
    Built([kind |-> "prize_winner_content",
           transaction |-> CompletedCryptoTransfer(value.transaction, sender,
                                                   PrincipalBytesToString(value.winner)),
           prizeMessageIndex |-> value.prize_message])

MessageReminderCreated(value) ==
    [kind |-> "message_reminder_created_content", notes |-> value.notes,
     remindAt |-> value.remind_at, reminderId |-> value.reminder_id, hidden |-> value.hidden]

MessageReminder(value) ==
    [kind |-> "message_reminder_content", notes |-> value.notes,
     reminderId |-> value.reminder_id]

MemeFighterContent(data) ==
    [kind |-> "meme_fighter_content", url |-> data.url, width |-> data.width,
     height |-> data.height]

(* Fault: referral cards are not known. *)
FaultyCustomContent(value) ==
    IF value.kind = "meme_fighter" /\ value.data # Missing
    THEN MemeFighterContent(value.data)
    ELSE Thrown

(* customContent: data that is no JSON does not parse. *)
CustomContent(value) ==
    CASE value.kind = "meme_fighter" ->
            IF value.data = Missing THEN Thrown ELSE MemeFighterContent(value.data)
      [] value.kind = "user_referral_card" -> [kind |-> "user_referral_card"]
      [] OTHER -> Thrown

ReportedMessage(value) ==
    [kind |-> "reported_message_content", total |-> value.count,
     reports |-> Mapped(value.reports,
        LAMBDA r : [notes |-> r.notes, reasonCode |-> r.reason_code,
                    timestamp |-> r.timestamp,
                    reportedBy |-> PrincipalBytesToString(r.reported_by)])]

(* The schema has the field "symbol", not "token". *)
TokenInfo(value) ==
    Built([fee |-> value.fee, decimals |-> value.decimals,
           symbol |-> Token(Field(value, "token")),
           ledger |-> PrincipalBytesToString(value.ledger)])

P2PTradeStatus(value) ==
    CASE value.tag = "Open" -> [kind |-> "p2p_swap_open"]
      [] value.tag = "Reserved" ->
            [kind |-> "p2p_swap_reserved",
             reservedBy |-> PrincipalBytesToString(value.value.reserved_by)]
      [] value.tag = "Accepted" ->
            [kind |-> "p2p_swap_accepted",
             acceptedBy |-> PrincipalBytesToString(value.value.accepted_by),
             token1TxnIn |-> value.value.token1_txn_in]
      [] value.tag = "Cancelled" ->
            [kind |-> "p2p_swap_cancelled", token0TxnOut |-> value.value.token0_txn_out]
      [] value.tag = "Expired" ->
            [kind |-> "p2p_swap_expired", token0TxnOut |-> value.value.token0_txn_out]
      [] value.tag = "Completed" ->
            [kind |-> "p2p_swap_completed",
             acceptedBy |-> PrincipalBytesToString(value.value.accepted_by),
             token1TxnIn |-> value.value.token1_txn_in,
             token0TxnOut |-> value.value.token0_txn_out,
             token1TxnOut |-> value.value.token1_txn_out]

P2PSwapContent(value) ==
    Built([kind |-> "p2p_swap_content", token0 |-> TokenInfo(value.token0),
           token1 |-> TokenInfo(value.token1), token0Amount |-> value.token0_amount,
           token1Amount |-> value.token1_amount, caption |-> value.caption,
           expiresAt |-> value.expires_at, status |-> P2PTradeStatus(value.status),
           swapId |-> value.swap_id, token0TxnIn |-> value.token0_txn_in])

VideoCallType(value) == IF value = "Default" THEN "default" ELSE "broadcast"

VideoCallContent(value) ==
    [kind |-> "video_call_content", ended |-> value.ended,
     participants |-> Mapped(value.participants,
        LAMBDA p : [userId |-> PrincipalBytesToString(p.user_id), joined |-> p.joined]),
     callType |-> VideoCallType(value.call_type)]

MessageContent(value, sender) ==
    CASE value.tag = "File" -> FileContent(value.value)
      [] value.tag = "Text" -> TextContent(value.value)
      [] value.tag = "Image" -> ImageContent(value.value)
      [] value.tag = "Video" -> VideoContent(value.value)
      [] value.tag = "Audio" -> AudioContent(value.value)
      [] value.tag = "Deleted" -> DeletedContent(value.value)
      [] value.tag = "Crypto" -> CryptoContent(value.value, sender)
      [] value.tag = "Poll" -> PollContent(value.value)
      [] value.tag = "Giphy" -> GiphyContent(value.value)
      [] value.tag = "GovernanceProposal" -> ProposalContent(value.value)
      [] value.tag = "Prize" -> PrizeContent(value.value)
      [] value.tag = "PrizeWinner" -> PrizeWinnerContent(sender, value.value)
      [] value.tag = "MessageReminderCreated" -> MessageReminderCreated(value.value)
      [] value.tag = "MessageReminder" -> MessageReminder(value.value)
      [] value.tag = "Custom" -> CustomContent(value.value)
      [] value.tag = "ReportedMessage" -> ReportedMessage(value.value)
      [] value.tag = "P2PSwap" -> P2PSwapContent(value.value)
      [] value.tag = "VideoCall" -> VideoCallContent(value.value)
      [] OTHER -> Thrown

-----------------------------------------------------------------------------
(* Messages *)

(* replySourceContext: a direct chat has no threads. *)
ReplySourceContext(context) ==
    LET chat == context[1]
    IN  CASE chat.tag = "Direct" ->
                [chatId |-> [kind |-> "direct_chat",
                             userId |-> PrincipalBytesToString(chat.value)],
                 threadRootMessageIndex |-> Missing]
          [] chat.tag = "Group" ->
                [chatId |-> [kind |-> "group_chat",
                             groupId |-> PrincipalBytesToString(chat.value)],
                 threadRootMessageIndex |-> context[2]]
          [] chat.tag = "Channel" ->
                [chatId |-> [kind |-> "channel",
                             communityId |-> PrincipalBytesToString(chat.value[1]),
                             channelId |-> ToBigInt32(chat.value[2])],
                 threadRootMessageIndex |-> context[2]]

ReplyContext(value) ==
    [kind |-> "reply_context", eventIndex |-> value.event_index,
     sourceContext |-> Optional(value.chat_if_other, ReplySourceContext)]

Reactions(value) ==
    Mapped(value, LAMBDA r : [reaction |-> r[1], userIds |-> ToSet(PrincipalTexts(r[2]))])

(* An object made of entries, as what it has for each principal: of two    *)
(* entries for one principal the later is kept.                            *)
ObjectOf(entries, Value(_)) ==
    LET places(key) ==
            {i \in DOMAIN entries : PrincipalBytesToString(entries[i][1]) = key}
    IN  [key \in Principals |->
            IF places(key) = {} THEN Missing ELSE Value(entries[Max(places(key))][2])]

(* tips: by ledgers, what users have given *)
Tips(value) == ObjectOf(value, LAMBDA tips : ObjectOf(tips, LAMBDA amount : amount))

ThreadSummary(value) ==
    [participantIds |-> ToSet(PrincipalTexts(value.participant_ids)),
     followedByMe |-> value.followed_by_me, numberOfReplies |-> value.reply_count,
     latestEventIndex |-> value.latest_event_index,
     latestEventTimestamp |-> value.latest_event_timestamp]

BotCommandArg(api) ==
    LET arg(kind) == [kind |-> kind, name |-> api.name, value |-> api.value.value]
    IN  CASE api.value.tag = "Boolean" -> arg("boolean")
          [] api.value.tag = "Integer" -> arg("integer")
          [] api.value.tag = "Decimal" -> arg("decimal")
          [] api.value.tag = "String" -> arg("string")
          [] api.value.tag = "User" ->
                [kind |-> "user", name |-> api.name,
                 userId |-> PrincipalBytesToString(api.value.value)]
          [] api.value.tag = "DateTime" -> arg("dateTime")

BotMessageContext(value) ==
    [finalised |-> value.finalised,
     command |-> Optional(value.command,
        LAMBDA c : [name |-> c.name, args |-> Mapped(c.args, BotCommandArg),
                    initiator |-> PrincipalBytesToString(c.initiator)])]

Message(value) ==
    LET sender == PrincipalBytesToString(value.sender)
        content == MessageContent(value.content, sender)
    IN  IF content = Thrown THEN Thrown
        ELSE [kind |-> "message", content |-> content, sender |-> sender,
              repliesTo |-> Optional(value.replies_to, ReplyContext),
              messageId |-> ToBigInt64(value.message_id),
              messageIndex |-> value.message_index,
              reactions |-> Reactions(value.reactions), tips |-> Tips(value.tips),
              edited |-> value.edited, forwarded |-> value.forwarded,
              deleted |-> content.kind = "deleted_content",
              thread |-> Optional(value.thread_summary, ThreadSummary),
              blockLevelMarkdown |-> value.block_level_markdown,
              botContext |-> Optional(value.bot_context, BotMessageContext)]

-----------------------------------------------------------------------------
(* Events *)

(* The events of members, users and bots *)
MembershipEvent(tag, v) ==
    LET user == PrincipalBytesToString(v.user_id)
        users == PrincipalTexts(v.user_ids)
    IN  CASE tag = "ParticipantsAdded" ->
                [kind |-> "members_added", userIds |-> users,
                 addedBy |-> PrincipalBytesToString(v.added_by)]
          [] tag = "UsersInvited" ->
                [kind |-> "users_invited", userIds |-> users,
                 invitedBy |-> PrincipalBytesToString(v.invited_by)]
          [] tag = "ParticipantJoined" -> [kind |-> "member_joined", userId |-> user]
          [] tag = "ParticipantsRemoved" ->
                [kind |-> "members_removed", userIds |-> users,
                 removedBy |-> PrincipalBytesToString(v.removed_by)]
          [] tag = "ParticipantLeft" -> [kind |-> "member_left", userId |-> user]
          [] tag = "UsersBlocked" ->
                [kind |-> "users_blocked", userIds |-> users,
                 blockedBy |-> PrincipalBytesToString(v.blocked_by)]
          [] tag = "UsersUnblocked" ->
                [kind |-> "users_unblocked", userIds |-> users,
                 unblockedBy |-> PrincipalBytesToString(v.unblocked_by)]
          [] tag = "RoleChanged" ->
                [kind |-> "role_changed", userIds |-> users,
                 changedBy |-> PrincipalBytesToString(v.changed_by),
                 oldRole |-> PermissionRole(v.old_role), newRole |-> PermissionRole(v.new_role)]
          [] tag = "BotAdded" ->
                [kind |-> "bot_added", userId |-> user,
                 addedBy |-> PrincipalBytesToString(v.added_by)]
          [] tag = "BotRemoved" ->
                [kind |-> "bot_removed", userId |-> user,
                 removedBy |-> PrincipalBytesToString(v.removed_by)]
          [] tag = "BotUpdated" ->
                [kind |-> "bot_updated", userId |-> user,
                 updatedBy |-> PrincipalBytesToString(v.updated_by)]
          [] OTHER -> Missing

InviteCodeChange(change) ==
    CASE change = "Enabled" -> "enabled"
      [] change = "Reset" -> "reset"
      [] OTHER -> "disabled"

(* The events of the settings of a chat *)
SettingsEvent(tag, v) ==
    LET changer == PrincipalBytesToString(v.changed_by)
        updater == PrincipalBytesToString(v.updated_by)
    IN  CASE tag = "GroupNameChanged" -> [kind |-> "name_changed", changedBy |-> changer]
          [] tag = "GroupDescriptionChanged" -> [kind |-> "desc_changed", changedBy |-> changer]
          [] tag = "AvatarChanged" -> [kind |-> "avatar_changed", changedBy |-> changer]
          [] tag = "GroupRulesChanged" ->
                [kind |-> "rules_changed", changedBy |-> changer, enabled |-> v.enabled,
                 enabledPrev |-> v.prev_enabled]
          [] tag = "PermissionsChanged" ->
                [kind |-> "permissions_changed", changedBy |-> changer,
                 oldPermissions |-> GroupPermissions(v.old_permissions_v2),
                 newPermissions |-> GroupPermissions(v.new_permissions_v2)]
          [] tag = "GroupVisibilityChanged" ->
                [kind |-> "group_visibility_changed", changedBy |-> changer,
                 public |-> v.public,
                 messagesVisibleToNonMembers |-> v.messages_visible_to_non_members]
          [] tag = "GroupInviteCodeChanged" ->
                [kind |-> "group_invite_code_changed", changedBy |-> changer,
                 change |-> InviteCodeChange(v.change)]
          [] tag = "EventsTimeToLiveUpdated" ->
                [kind |-> "events_ttl_updated", updatedBy |-> updater,
                 newTimeToLive |-> v.new_ttl]
          [] tag = "GroupGateUpdated" -> [kind |-> "gate_updated", updatedBy |-> updater]
          [] tag = "ExternalUrlUpdated" ->
                [kind |-> "external_url_updated", updatedBy |-> updater, newUrl |-> v.new_url]
          [] OTHER -> Missing

(* The other ones *)
ChatLifeEvent(tag, v) ==
    CASE tag = "GroupChatCreated" ->
            [kind |-> "group_chat_created", name |-> v.name, description |-> v.description,
             created_by |-> PrincipalBytesToString(v.created_by)]
      [] tag = "MessagePinned" ->
            [kind |-> "message_pinned", pinnedBy |-> PrincipalBytesToString(v.pinned_by),
             messageIndex |-> v.message_index]
      [] tag = "MessageUnpinned" ->
            [kind |-> "message_unpinned", unpinnedBy |-> PrincipalBytesToString(v.unpinned_by),
             messageIndex |-> v.message_index]
      [] tag = "ChatFrozen" ->
            [kind |-> "chat_frozen", frozenBy |-> PrincipalBytesToString(v.frozen_by),
             reason |-> v.reason]
      [] tag = "ChatUnfrozen" ->
            [kind |-> "chat_unfrozen", unfrozenBy |-> PrincipalBytesToString(v.unfrozen_by)]
      [] tag = "MembersAddedToDefaultChannel" ->
            [kind |-> "members_added_to_default_channel", count |-> v.count]
      [] OTHER -> Thrown

Event(value) ==
    CASE value.tag \in {"Empty", "FailedToDeserialize"} -> [kind |-> "empty"]
      [] value.tag = "DirectChatCreated" -> [kind |-> "direct_chat_created"]
      [] value.tag = "Message" -> Message(value.value)
      [] OTHER -> OrElse(MembershipEvent(value.tag, value.value),
                     OrElse(SettingsEvent(value.tag, value.value),
                            ChatLifeEvent(value.tag, value.value)))

EventWrapper(value) ==
    Built([event |-> Event(value.event), index |-> value.index,
           timestamp |-> value.timestamp, expiresAt |-> value.expires_at])

ApiChatEventsCriteria(domain) ==
    CASE domain.kind = "chat_events_page" ->
            [tag |-> "Page",
             value |-> [start_index |-> domain.startEventIndex, ascending |-> domain.ascending,
                        max_messages |-> domain.maxMessages, max_events |-> domain.maxEvents]]
      [] domain.kind = "chat_events_by_index" ->
            [tag |-> "ByIndex", value |-> [events |-> domain.eventIndexes]]
      [] domain.kind = "chat_events_window" ->
            [tag |-> "Window",
             value |-> [mid_point |-> domain.midPointMessageIndex,
                        max_messages |-> domain.maxMessages, max_events |-> domain.maxEvents]]

-----------------------------------------------------------------------------
(* Responses: OpenChat's "Error" is known to none of them. *)

Kind(kind) == [kind |-> kind]

SendMessageResponse(api) ==
    CASE api.tag = "Success" ->
            [kind |-> "success", messageId |-> ToBigInt64(api.value.message_id),
             eventIndex |-> api.value.event_index, messageIndex |-> api.value.message_index,
             timestamp |-> api.value.timestamp, expiresAt |-> api.value.expires_at]
      [] api.tag = "FailedAuthentication" -> Kind("failed_authentication")
      [] api.tag = "InvalidRequest" -> Kind("invalid_request")
      [] api.tag = "C2CError" -> Kind("server_error")
      [] api.tag = "Frozen" -> Kind("frozen")
      [] api.tag = "MessageAlreadyFinalised" -> Kind("message_already_finalized")
      [] api.tag = "NotAuthorized" -> Kind("not_authorized")
      [] api.tag = "ThreadNotFound" -> Kind("thread_not_found")
      [] OTHER -> Thrown

CreateChannelResponse(api) ==
    CASE api.tag = "Success" ->
            [kind |-> "success", channelId |-> ToBigInt32(api.value.channel_id)]
      [] api.tag = "FailedAuthentication" -> Kind("failed_authentication")
      [] api.tag = "InvalidRequest" -> Kind("invalid_request")
      [] api.tag = "C2CError" -> Kind("server_error")
      [] api.tag = "Frozen" -> Kind("frozen")
      [] api.tag = "NotAuthorized" -> Kind("not_authorized")
      [] OTHER -> Thrown

DeleteChannelResponse(api) ==
    CASE api.tag = "FailedAuthentication" -> Kind("failed_authentication")
      [] api.tag = "InvalidRequest" -> Kind("invalid_request")
      [] api.tag = "C2CError" -> Kind("server_error")
      [] api.tag = "Success" -> Kind("success")
      [] api.tag = "ChannelNotFound" -> Kind("channel_not_found")
      [] api.tag = "Frozen" -> Kind("frozen")
      [] api.tag = "NotAuthorized" -> Kind("not_authorized")
      [] OTHER -> Thrown

VideoCall(api) ==
    [messageIndex |-> api.message_index,
     callType |-> IF api.call_type = "Default" THEN "default" ELSE "broadcast"]

FrozenGroupInfo(api) ==
    [timestamp |-> api.timestamp, frozenBy |-> PrincipalBytesToString(api.frozen_by),
     reason |-> api.reason]

ChatDetails(api) ==
    [kind |-> "success", name |-> api.name, description |-> api.description,
     avatarId |-> api.avatar_id, isPublic |-> api.is_public,
     historyVisibleToNewJoiners |-> api.history_visible_to_new_joiners,
     messagesVisibleToNonMembers |-> api.messages_visible_to_non_members,
     permissions |-> GroupPermissions(api.permissions), rules |-> api.rules,
     eventsTtl |-> api.events_ttl, eventsTtlLastUpdated |-> api.events_ttl_last_updated,
     gateConfig |-> Optional(api.gate_config, AccessGateConfig),
     videoCallInProgress |-> Optional(api.video_call_in_progress, VideoCall),
     verified |-> OrElse(api.verified, FALSE), frozen |-> Optional(api.frozen, FrozenGroupInfo),
     dateLastPinned |-> api.date_last_pinned, lastUpdated |-> api.last_updated,
     externalUrl |-> api.external_url, latestEventIndex |-> api.latest_event_index,
     latestMessageIndex |-> api.latest_message_index, memberCount |-> api.member_count]

ChatDetailsResponse(api) ==
    CASE api.tag = "Success" -> ChatDetails(api.value)
      [] api.tag = "FailedAuthentication" -> Kind("failed_authentication")
      [] api.tag = "InternalError" -> Kind("server_error")
      [] api.tag = "DirectChatUnsupported" -> Kind("direct_chat_unsupported")
      [] api.tag = "NotAuthorized" -> Kind("not_authorized")
      [] api.tag = "NotFound" -> Kind("not_found")
      [] OTHER -> Thrown

(* A page of which one event throws is not answered at all. *)
ChatEventsSuccessResponse(api) ==
    Built([kind |-> "success", events |-> Mapped(api.events, EventWrapper),
           unauthorized |-> api.unauthorized,
           expiredEventRanges |-> api.expired_event_ranges,
           expiredMessageRanges |-> api.expired_message_ranges,
           latestEventIndex |-> api.latest_event_index,
           chatLastUpdated |-> api.chat_last_updated])

ChatEventsResponse(api) ==
    CASE api.tag = "Success" -> ChatEventsSuccessResponse(api.value)
      [] api.tag = "FailedAuthentication" -> Kind("failed_authentication")
      [] api.tag = "InternalError" -> Kind("server_error")
      [] api.tag = "NotAuthorized" -> Kind("not_authorized")
      [] api.tag = "NotFound" -> Kind("not_found")
      [] OTHER -> Thrown
=============================================================================
