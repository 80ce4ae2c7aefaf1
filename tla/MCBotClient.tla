----------------------------- MODULE MCBotClient -----------------------------
(***************************************************************************)
(* An instance of BotClient for TLC: a token that grants some permissions, *)
(* a chat in which every kind of event has happened that the schemas know, *)
(* and one call of each kind.                                              *)
(***************************************************************************)
EXTENDS BotClient

CONSTANT p1

MCPrincipals == {p1}

MCAuth == [kind |-> "command_jwt", token |-> "jwt"]
MCGranted ==
    [message |-> {"Text", "Image", "Audio", "Poll"}, chat |-> {"ReadMessages"},
     community |-> {"CreatePrivateChannel"}]

LOCAL bytes == [bytes |-> p1]
LOCAL is(tag, value) == [tag |-> tag, value |-> value]
LOCAL blob == [canister_id |-> bytes, blob_id |-> 7]

-----------------------------------------------------------------------------
(* Permissions, gates and details *)

LOCAL messageRoles ==
    [default |-> "Members", text |-> "Admins", image |-> Missing, video |-> "Moderators",
     audio |-> "None", file |-> "Owner", poll |-> Missing, crypto |-> Missing,
     giphy |-> Missing, prize |-> Missing, p2p_swap |-> Missing, video_call |-> "Members",
     custom |-> <<[subtype |-> "quiz", role |-> "Moderators"]>>]

LOCAL roles(threads) ==
    [change_roles |-> "Owner", update_group |-> "Admins", add_members |-> "Admins",
     invite_users |-> "Members", remove_members |-> "Moderators",
     delete_messages |-> "Moderators", pin_messages |-> "Admins",
     react_to_messages |-> "Members", mention_all_members |-> "Members",
     start_video_call |-> "None", message_permissions |-> messageRoles,
     thread_permissions |-> threads]

LOCAL leaves ==
    <<[tag |-> "DiamondMember"], [tag |-> "Locked"],
      is("VerifiedCredential",
         [issuer_canister_id |-> bytes, issuer_origin |-> "o", credential_type |-> "t",
          credential_name |-> "n",
          credential_arguments |-> <<<<"n", is("Int", 3)>>>>]),
      is("VerifiedCredential",
         [issuer_canister_id |-> bytes, issuer_origin |-> "o", credential_type |-> "t",
          credential_name |-> "n", credential_arguments |-> <<>>]),
      is("SnsNeuron", [governance_canister_id |-> bytes, min_stake_e8s |-> 2,
                       min_dissolve_delay |-> Missing]),
      is("Payment", [ledger_canister_id |-> bytes, amount |-> 5, fee |-> 1]),
      is("TokenBalance", [ledger_canister_id |-> bytes, min_balance |-> 4])>>

MCOwnDetails ==
    [name |-> "own", description |-> "", avatar_id |-> 3, is_public |-> TRUE,
     history_visible_to_new_joiners |-> TRUE, messages_visible_to_non_members |-> FALSE,
     permissions |-> roles(messageRoles),
     rules |-> [text |-> "be kind", version |-> 2, enabled |-> TRUE],
     events_ttl |-> 60, events_ttl_last_updated |-> 10,
     gate_config |-> [gate |-> is("Composite", [inner |-> leaves, and |-> FALSE]), expiry |-> 9],
     video_call_in_progress |-> [message_index |-> 0, call_type |-> "Broadcast"],
     verified |-> Missing,
     frozen |-> [timestamp |-> 1, frozen_by |-> bytes, reason |-> Missing],
     date_last_pinned |-> 5, last_updated |-> 6, external_url |-> "url",
     latest_event_index |-> 0, latest_message_index |-> Missing, member_count |-> 2]

-----------------------------------------------------------------------------
(* Events *)

LOCAL message(content) ==
    [message_index |-> 0, message_id |-> 5, sender |-> bytes, content |-> content,
     bot_context |-> Missing, replies_to |-> Missing, reactions |-> <<>>, tips |-> <<>>,
     thread_summary |-> Missing, edited |-> FALSE, forwarded |-> FALSE,
     block_level_markdown |-> FALSE]
LOCAL posted(content) == is("Message", message(content))
LOCAL text == is("Text", [text |-> "hello"])

LOCAL replying(chat, thread) ==
    is("Message", [message(text) EXCEPT !.replies_to =
                    [chat_if_other |-> <<chat, thread>>, event_index |-> 1]])

LOCAL argument(value) == [name |-> "a", value |-> value]

(* A message with all that may come with one; ids have 64 bits. *)
LOCAL richMessage ==
    is("Message",
       [message(text) EXCEPT
            !.message_id = Width64 + 1,
            !.bot_context =
                [finalised |-> TRUE,
                 command |->
                    [name |-> "c", initiator |-> bytes,
                     args |-> <<argument(is("String", "s")), argument(is("Integer", -1)),
                                argument(is("Decimal", 2)), argument(is("Boolean", TRUE)),
                                argument(is("User", bytes)), argument(is("DateTime", 4))>>]],
            !.replies_to = [chat_if_other |-> Missing, event_index |-> 0],
            !.reactions = <<<<"+1", <<bytes, bytes>>>>>>,
            !.tips = <<<<bytes, <<<<bytes, 1>>>>>>, <<bytes, <<<<bytes, 2>>>>>>>>,
            !.thread_summary = [participant_ids |-> <<bytes>>, followed_by_me |-> TRUE,
                                reply_count |-> 1, latest_event_index |-> 2,
                                latest_event_timestamp |-> 3]])

LOCAL icrc(memo) ==
    [ledger |-> bytes, amount |-> 10, fee |-> 1, memo |-> memo, block_index |-> 8]
LOCAL failure(memo) ==
    [ledger |-> bytes, amount |-> 10, fee |-> 1, memo |-> memo, error_message |-> "e"]
LOCAL transfer(state, transaction) ==
    is("Crypto", [recipient |-> bytes, transfer |-> is(state, transaction), caption |-> "c"])

LOCAL poll(votes) ==
    is("Poll", [votes |-> [total |-> votes, user |-> <<0>>], ended |-> FALSE,
                config |-> [text |-> "?", options |-> <<"a", "b">>, end_date |-> 9,
                            anonymous |-> FALSE, show_votes_before_end_date |-> TRUE,
                            allow_multiple_votes_per_user |-> FALSE,
                            allow_user_to_change_vote |-> TRUE]])

LOCAL proposal(kind, proposer) ==
    LET common == [id |-> 1, proposer |-> proposer, created |-> 1, title |-> "t",
                   summary |-> "s", url |-> "u", status |-> "Adopted",
                   reward_status |-> "Settled", deadline |-> 3, last_updated |-> 2,
                   tally |-> [yes |-> 3 * E8s, no |-> E8s, total |-> 5 * E8s, timestamp |-> 1],
                   payload_text_rendering |-> Missing]
    IN  is("GovernanceProposal",
           [governance_canister_id |-> bytes, my_vote |-> TRUE,
            proposal |-> is(kind,
                IF kind = "NNS" THEN common @@ [topic |-> 14]
                ELSE common @@ [action |-> 1, minimum_yes_proportion_of_total |-> 300,
                                minimum_yes_proportion_of_exercised |-> 5000])])

LOCAL giphy == [width |-> 1, height |-> 2, url |-> "u", mime_type |-> "m"]

LOCAL contents ==
    <<is("Image", [width |-> 3, height |-> 4, thumbnail_data |-> "", caption |-> "c",
                   mime_type |-> "m", blob_reference |-> blob]),
      is("Video", [width |-> 3, height |-> 4, thumbnail_data |-> "", caption |-> Missing,
                   mime_type |-> "m", image_blob_reference |-> Missing,
                   video_blob_reference |-> blob]),
      is("Audio", [caption |-> Missing, mime_type |-> "m", blob_reference |-> blob]),
      is("File", [name |-> "f", caption |-> "c", mime_type |-> "m", file_size |-> 1,
                  blob_reference |-> Missing]),
      poll(is("Visible", <<<<"0", <<bytes>>>>>>)),
      poll(is("Anonymous", <<<<"0", 2>>>>)), poll(is("Hidden", 1)),
      is("Giphy", [caption |-> Missing, title |-> "t", desktop |-> giphy, mobile |-> giphy]),
      is("Deleted", [deleted_by |-> bytes, timestamp |-> 2])>>

LOCAL finances ==
    <<transfer("Completed", is("NNS", icrc(1))),
      transfer("Completed", is("ICRC1", icrc(Missing))),
      transfer("Completed", is("ICRC2", icrc(<<1, 2>>))), transfer("Failed", is("NNS", failure(1))),
      transfer("Failed", is("ICRC1", failure(<<255>>))),
      transfer("Failed", is("ICRC2", failure(Missing))),
      is("PrizeWinner", [winner |-> bytes, transaction |-> is("ICRC1", icrc(<<1>>)),
                         prize_message |-> 0]),
      proposal("NNS", 1), proposal("SNS", <<1, 255>>)>>

LOCAL oddities ==
    <<is("MessageReminderCreated",
         [reminder_id |-> 1, remind_at |-> 2, notes |-> "n", hidden |-> FALSE]),
      is("MessageReminder", [reminder_id |-> 1, notes |-> Missing]),
      is("ReportedMessage",
         [reports |-> <<[reported_by |-> bytes, timestamp |-> 1, reason_code |-> 2,
                         notes |-> Missing]>>, count |-> 1]),
      is("VideoCall", [call_type |-> "Default", ended |-> Missing,
                       participants |-> <<[user_id |-> bytes, joined |-> 1]>>]),
      is("Custom", [kind |-> "meme_fighter", data |-> [url |-> "u", width |-> 1, height |-> 1]]),
      is("Custom", [kind |-> "user_referral_card", data |-> Missing])>>

LOCAL by(name) == Put(EmptyMap, name, bytes)
LOCAL users(name) == by(name) @@ [user_ids |-> <<bytes>>]
LOCAL bot(name) == by(name) @@ [user_id |-> bytes]

LOCAL memberships ==
    <<is("ParticipantsAdded", users("added_by")), is("ParticipantsRemoved", users("removed_by")),
      is("ParticipantJoined", by("user_id")), is("ParticipantLeft", by("user_id")),
      is("UsersBlocked", users("blocked_by")), is("UsersUnblocked", users("unblocked_by")),
      is("UsersInvited", users("invited_by")), is("BotAdded", bot("added_by")),
      is("BotRemoved", bot("removed_by")), is("BotUpdated", bot("updated_by")),
      is("RoleChanged", users("changed_by") @@ [old_role |-> "Participant", new_role |-> "Owner"]),
      is("MembersAddedToDefaultChannel", [count |-> 3])>>

LOCAL settings ==
    <<is("GroupNameChanged", by("changed_by")), is("GroupDescriptionChanged", by("changed_by")),
      is("AvatarChanged", by("changed_by")),
      is("GroupRulesChanged", by("changed_by") @@ [enabled |-> TRUE, prev_enabled |-> FALSE]),
      is("PermissionsChanged",
         by("changed_by") @@ [old_permissions_v2 |-> roles(Missing),
                              new_permissions_v2 |-> roles(messageRoles)]),
      is("GroupVisibilityChanged",
         by("changed_by") @@ [public |-> TRUE, messages_visible_to_non_members |-> Missing]),
      is("GroupInviteCodeChanged", by("changed_by") @@ [change |-> "Reset"]),
      is("EventsTimeToLiveUpdated", by("updated_by") @@ [new_ttl |-> Missing]),
      is("GroupGateUpdated", by("updated_by")),
      is("ExternalUrlUpdated", by("updated_by") @@ [new_url |-> "u"])>>

LOCAL lives ==
    <<[tag |-> "DirectChatCreated"], [tag |-> "Empty"], [tag |-> "FailedToDeserialize"],
      is("GroupChatCreated", [name |-> "n", description |-> "d", created_by |-> bytes]),
      is("MessagePinned", [message_index |-> 0, pinned_by |-> bytes]),
      is("MessageUnpinned", [message_index |-> 0, unpinned_by |-> bytes]),
      is("ChatFrozen", [frozen_by |-> bytes, reason |-> "r"]),
      is("ChatUnfrozen", [unfrozen_by |-> bytes]), richMessage,
      replying(is("Direct", bytes), Missing), replying(is("Group", bytes), 4),
      replying(is("Channel", <<bytes, Width32 + 2>>), Missing)>>

LOCAL asEvents(list) == [i \in DOMAIN list |-> posted(list[i])]

(* The messages that are not read: every one spoils its page.              *)
LOCAL pending == [ledger |-> bytes, token_symbol |-> "ICP", amount |-> 1, fee |-> 1,
                  memo |-> Missing, created |-> 1]
LOCAL token == [symbol |-> "ICP", ledger |-> bytes, decimals |-> 8, fee |-> 1]
LOCAL prize ==
    is("Prize", [prizes_remaining |-> 1, prizes_pending |-> 0, winners |-> <<bytes>>,
                 token_symbol |-> "CHAT", ledger |-> bytes, end_date |-> 1, caption |-> "c",
                 diamond_only |-> FALSE, lifetime_diamond_only |-> FALSE,
                 unique_person_only |-> FALSE, streak_only |-> 0])
LOCAL swap ==
    is("P2PSwap", [swap_id |-> 1, token0 |-> token, token0_amount |-> 1, token1 |-> token,
                   token1_amount |-> 1, expires_at |-> 1, caption |-> Missing,
                   token0_txn_in |-> 0, status |-> [tag |-> "Open"]])
LOCAL unread ==
    {prize, swap, transfer("Pending", is("NNS", pending)), transfer("Pending", is("ICRC1", pending)),
     transfer("Pending", is("ICRC2", pending)), transfer("Completed", is("ICRC1", icrc(<<>>))),
     is("PrizeWinner", [winner |-> bytes, transaction |-> is("ICRC2", icrc(<<>>)),
                        prize_message |-> 0]),
     is("Custom", [kind |-> "quiz", data |-> Missing]),
     is("Custom", [kind |-> "meme_fighter", data |-> Missing])}

MCHistories ==
    {<<>>, asEvents(contents), asEvents(finances), asEvents(oddities), memberships, settings, lives}
    \cup {<<lives[1], posted(content)>> : content \in unread}

LOCAL events == {posted(text), posted(prize)}

-----------------------------------------------------------------------------
(* Calls *)

LOCAL send(draft) == [op |-> "sendMessage", message |-> draft]
LOCAL create(channel) == [op |-> "createChannel", channel |-> channel]
LOCAL read(criteria, channelId) ==
    [op |-> "chatEvents", criteria |-> criteria, channelId |-> channelId]

LOCAL private == SetIsPublic(NewChannel("c", "d"), FALSE)

(* Gates as users of the client give them *)
LOCAL given(i) == LeafGate(leaves[i])
LOCAL bothGates ==
    [gate |-> [kind |-> "composite_gate", operator |-> "and",
               gates |-> <<given(1), given(2), given(3), given(5), given(6), given(7),
                           [given(4) EXCEPT !.credential.credentialArguments = <<>>]>>],
     expiry |-> 8]

(* A channel of which everything is set *)
LOCAL fullChannel ==
    LET gated == SetGateConfig(SetMessagesVisibleToNonMembers(private, TRUE), bothGates)
        threads == SetThreadPermissions(SetThreadPermissions(gated, "text", "admin"),
                                        "poll", "owner")
        permitted == SetGroupPermission(SetMessagePermissions(threads, "image", "moderator"),
                                        "addMembers", "none")
        ruled == SetRules(SetHistoryVisibleToNewJoiners(permitted, FALSE), "rule")
    IN  SetEventsTtl(SetAvatar(SetExternalUrl(ruled, "url"), "data"), 60)

LOCAL requests ==
    {send(SetBlockLevelMarkdown(TextMessage("hi"), TRUE)),
     send(SetMessageId(SetFinalised(SetChannelId(TextMessage("..."), 1), FALSE), 9)),
     send(SetAllowUsersToChangeVote(SetAnonymous(SetShowVotesBeforeEndDate(
            SetAllowMultipleVotesPerUser(PollMessage("q", <<"a", "b">>, "oneDay"), TRUE),
            FALSE), FALSE), FALSE)),
     send(SetCaption(ImageMessage(2, 3, "m", [blobId |-> 1, canisterId |-> p1]), "c")),
     send(SetCaption(FileMessage("f", "m", 1, Missing), "c")),
     send(MakeEphemeral(TextMessage("psst"), 3)),
     create(fullChannel),
     create(SetGateConfig(private, [gate |-> given(5), expiry |-> Missing])),
     create(NewChannel("c", "d")),
     create(SetGateConfig(private, [gate |-> [kind |-> "nft_gate"], expiry |-> Missing])),
     [op |-> "deleteChannel", channelId |-> 1],
     [op |-> "chatDetails", channelId |-> Missing], [op |-> "chatDetails", channelId |-> 1],
     read([kind |-> "chat_events_page", startEventIndex |-> 0, ascending |-> TRUE,
           maxMessages |-> 20, maxEvents |-> 20], Missing),
     read([kind |-> "chat_events_page", startEventIndex |-> 1, ascending |-> FALSE,
           maxMessages |-> 2, maxEvents |-> 2], 1),
     read([kind |-> "chat_events_by_index", eventIndexes |-> <<1, 0>>], Missing),
     read([kind |-> "chat_events_window", midPointMessageIndex |-> 1, maxMessages |-> 1,
           maxEvents |-> 1], Missing)}

-----------------------------------------------------------------------------
(* TLC's workers share these values.  The union compares each with itself, *)
(* which brings it into its normal form before the workers start.          *)
MCRequests == requests \cup requests
MCEvents == events \cup events
=============================================================================
