------------------------------- MODULE Drafts -------------------------------
(***************************************************************************)
(* What the users of the TypeScript client fill in: messages               *)
(* (domain/message.ts) and channels (domain/channel.ts), with what their   *)
(* setters change and what is made of them for OpenChat.                   *)
(***************************************************************************)
EXTENDS Mapping

CONSTANT Now    \* Date.now()

-----------------------------------------------------------------------------
(* Messages *)

NewMessage(content, required) ==
    [content |-> content, requiredMessagePermissions |-> required, channelId |-> Missing,
     messageId |-> Missing, contextMessageId |-> Missing, finalised |-> TRUE,
     blockLevelMarkdown |-> FALSE, ephemeral |-> FALSE]

SetChannelId(message, id) == [message EXCEPT !.channelId = id]
SetFinalised(message, finalised) == [message EXCEPT !.finalised = finalised]
SetBlockLevelMarkdown(message, blm) == [message EXCEPT !.blockLevelMarkdown = blm]
SetMessageId(message, id) == [message EXCEPT !.messageId = id]
SetContextMessageId(message, id) == [message EXCEPT !.contextMessageId = id]

(* makeEphemeral gives the message a random id. *)
MakeEphemeral(message, random64) ==
    SetContextMessageId(SetFinalised([message EXCEPT !.ephemeral = TRUE], TRUE), random64)

TextMessage(text) == NewMessage([tag |-> "Text", value |-> [text |-> text]], {"Text"})

ImageMessage(width, height, mimeType, blob) ==
    NewMessage([tag |-> "Image",
                value |-> [height |-> height, mime_type |-> mimeType,
                           blob_reference |-> Optional(blob, ApiBlobReference),
                           thumbnail_data |-> "", caption |-> Missing, width |-> width]],
               {"Image"})

FileMessage(name, mimeType, fileSize, blob) ==
    NewMessage([tag |-> "File",
                value |-> [name |-> name, file_size |-> fileSize, mime_type |-> mimeType,
                           caption |-> Missing,
                           blob_reference |-> Optional(blob, ApiBlobReference)]],
               {"File"})

SetCaption(message, caption) == [message EXCEPT !.content.value.caption = caption]

PollDurations == [oneHour |-> 3600000, oneDay |-> 86400000, oneWeek |-> 604800000]
PollEndDate(duration) == Now + PollDurations[duration]

PollMessage(question, answers, duration) ==
    NewMessage([tag |-> "Poll",
                value |-> [votes |-> [total |-> [tag |-> "Hidden", value |-> 0],
                                      user |-> <<>>],
                           ended |-> FALSE,
                           config |-> [text |-> question,
                                       allow_multiple_votes_per_user |-> FALSE,
                                       show_votes_before_end_date |-> TRUE,
                                       end_date |-> PollEndDate(duration),
                                       anonymous |-> FALSE,
                                       allow_user_to_change_vote |-> TRUE,
                                       options |-> answers]]],
               {"Poll"})

SetAllowMultipleVotesPerUser(message, val) ==
    [message EXCEPT !.content.value.config.allow_multiple_votes_per_user = val]
SetShowVotesBeforeEndDate(message, val) ==
    [message EXCEPT !.content.value.config.show_votes_before_end_date = val]
SetAnonymous(message, val) == [message EXCEPT !.content.value.config.anonymous = val]
SetAllowUsersToChangeVote(message, val) ==
    [message EXCEPT !.content.value.config.allow_user_to_change_vote = val]

(* Message.toInputArgs *)
MessageInputArgs(message, auth) ==
    [channel_id |-> message.channelId, message_id |-> message.messageId,
     content |-> message.content, finalised |-> message.finalised,
     block_level_markdown |-> message.blockLevelMarkdown, auth_token |-> ApiAuthToken(auth)]

-----------------------------------------------------------------------------
(* Channels *)

NoMessagePermissions ==
    [text |-> Missing, image |-> Missing, video |-> Missing, audio |-> Missing,
     file |-> Missing, poll |-> Missing, crypto |-> Missing, giphy |-> Missing,
     prize |-> Missing, p2pSwap |-> Missing, videoCall |-> Missing, custom |-> <<>>,
     default |-> "member"]

DefaultGroupPermissions ==
    [changeRoles |-> "admin", removeMembers |-> "moderator", deleteMessages |-> "moderator",
     updateGroup |-> "admin", pinMessages |-> "admin", inviteUsers |-> "admin",
     addMembers |-> "admin", mentionAllMembers |-> "member", reactToMessages |-> "member",
     startVideoCall |-> "member",
     messagePermissions |-> [NoMessagePermissions EXCEPT !.p2pSwap = "none"],
     threadPermissions |-> Missing]

NewChannel(name, description) ==
    [name |-> name, description |-> description, isPublic |-> TRUE,
     permissions |-> DefaultGroupPermissions, messagesVisibleToNonMembers |-> FALSE,
     historyVisibleToNewJoiners |-> TRUE, rules |-> [text |-> "", enabled |-> FALSE],
     gateConfig |-> Missing, externalUrl |-> Missing, avatar |-> Missing,
     eventsTtl |-> Missing]

SetMessagesVisibleToNonMembers(channel, val) ==
    [channel EXCEPT !.messagesVisibleToNonMembers = val]
SetIsPublic(channel, val) == [channel EXCEPT !.isPublic = val]

(* The first permission in threads brings the default one. *)
SetThreadPermissions(channel, perm, role) ==
    [channel EXCEPT !.permissions.threadPermissions =
        [OrElse(@, NoMessagePermissions) EXCEPT ![perm] = role]]
SetMessagePermissions(channel, perm, role) ==
    [channel EXCEPT !.permissions.messagePermissions[perm] = role]
SetGroupPermission(channel, perm, role) == [channel EXCEPT !.permissions[perm] = role]

SetHistoryVisibleToNewJoiners(channel, val) ==
    [channel EXCEPT !.historyVisibleToNewJoiners = val]
SetRules(channel, text) == [channel EXCEPT !.rules = [text |-> text, enabled |-> TRUE]]
SetGateConfig(channel, val) == [channel EXCEPT !.gateConfig = val]
SetExternalUrl(channel, val) == [channel EXCEPT !.externalUrl = val]
SetAvatar(channel, val) == [channel EXCEPT !.avatar = val]
SetEventsTtl(channel, val) == [channel EXCEPT !.eventsTtl = val]

(* Channel.toInputArgs: it throws for a gate that OpenChat does not know.  *)
ChannelInputArgs(channel, auth) ==
    Built([is_public |-> channel.isPublic,
           permissions |-> ApiGroupPermissions(channel.permissions),
           gate_config |-> Optional(channel.gateConfig, ApiAccessGateConfig),
           auth_token |-> ApiAuthToken(auth), external_url |-> channel.externalUrl,
           name |-> channel.name, description |-> channel.description,
           events_ttl |-> channel.eventsTtl,
           messages_visible_to_non_members |-> channel.messagesVisibleToNonMembers,
           history_visible_to_new_joiners |-> channel.historyVisibleToNewJoiners,
           rules |-> channel.rules,
           avatar |-> Optional(channel.avatar,
                               LAMBDA data : [data |-> data, mime_type |-> "image/jpg"])])
=============================================================================
