---------------------------- MODULE ActionScopes ----------------------------
(***************************************************************************)
(* Chats, communities and the scopes of commands and API keys in the       *)
(* TypeScript SDK (domain/identifiers.ts, scope.ts, scopeMap.ts).          *)
(*                                                                         *)
(* A map from scopes is keyed by their JSON text.  The text of a value is  *)
(* the record of what toString leaves of it.                               *)
(***************************************************************************)
EXTENDS Maps

CONSTANTS
    UserIds, GroupIds, CommunityIds, ChannelIds,
    Threads,        \* what a command may carry beside its chat
    NoThread

ASSUME ActionScopesAssumption == NoThread \notin Threads

-----------------------------------------------------------------------------
(* Identifiers *)

DirectChats == [kind : {"direct_chat"}, userId : UserIds]
GroupChats == [kind : {"group_chat"}, groupId : GroupIds]
ChannelsOf == [kind : {"channel"}, communityId : CommunityIds, channelId : ChannelIds]
ChatIdentifiers == DirectChats \cup GroupChats \cup ChannelsOf
CommunityIdentifiers == [kind : {"community"}, communityId : CommunityIds]

IsChannel(chat) == chat.kind = "channel"

(* canisterId: a channel lives in the canister of its community. *)
CanisterId(id) ==
    CASE id.kind = "direct_chat" -> id.userId
      [] id.kind = "group_chat" -> id.groupId
      [] id.kind \in {"channel", "community"} -> id.communityId

(* Scopes as tokens carry them, and mapCommandScope, mapApiKeyScope *)
WireChats ==
    [Direct : UserIds] \cup [Group : GroupIds] \cup [Channel : CommunityIds \X ChannelIds]

MapChatIdentifier(api) ==
    CASE "Group" \in DOMAIN api -> [kind |-> "group_chat", groupId |-> api.Group]
      [] "Direct" \in DOMAIN api -> [kind |-> "direct_chat", userId |-> api.Direct]
      [] "Channel" \in DOMAIN api ->
            [kind |-> "channel", communityId |-> api.Channel[1], channelId |-> api.Channel[2]]

(* MergedActionScope: a chat, maybe with a thread in it, or a community *)
ChatScope(chat, thread) == [kind |-> "chat", chat |-> chat, thread |-> thread]
CommunityScope(id) ==
    [kind |-> "community", communityId |-> [kind |-> "community", communityId |-> id]]

MapCommandScope(api) ==
    IF "Chat" \in DOMAIN api
    THEN ChatScope(MapChatIdentifier(api.Chat.chat), api.Chat.thread)
    ELSE CommunityScope(api.Community)

MapApiKeyScope(api) ==
    IF "Chat" \in DOMAIN api
    THEN ChatScope(MapChatIdentifier(api.Chat), NoThread)
    ELSE CommunityScope(api.Community)

(* The scopes that commands and keys have *)
CommandScopes ==
    {MapCommandScope(api) :
        api \in [Chat : [chat : WireChats, thread : Threads \cup {NoThread}]]
                \cup [Community : CommunityIds]}

KeyScopes ==
    {MapApiKeyScope(api) : api \in [Chat : WireChats] \cup [Community : CommunityIds]}

-----------------------------------------------------------------------------
(* Texts of scopes *)

(* toString: the thread and the message id are left out. *)
ScopeText(scope) ==
    IF scope.kind = "chat" THEN [kind |-> "chat", chat |-> scope.chat] ELSE scope

Texts == {ScopeText(scope) : scope \in KeyScopes}

(* fromString *)
FromString(text) ==
    IF text.kind = "chat" THEN ChatScope(text.chat, NoThread) ELSE text

(* The community that the channel of a scope belongs to *)
IsChannelScope(scope) == scope.kind = "chat" /\ IsChannel(scope.chat)
ParentScope(scope) == CommunityScope(scope.chat.communityId)

(* isParentOf *)
IsParentOf(parent, scope) ==
    /\ parent.kind = "community"
    /\ IsChannelScope(scope)
    /\ scope.chat.communityId = parent.communityId.communityId

-----------------------------------------------------------------------------
(* ActionScopeToApiKeyMap: one key per text of a scope *)

(* #bestMatch: the key of the very scope, whatever it grants, or for a     *)
(* channel the key of its community; {} if there is none.                  *)
BestMatch(map, scope) ==
    LET exact == {map[t] : t \in DOMAIN map \cap {ScopeText(scope)}}
        parent == IF IsChannelScope(scope)
                  THEN {map[t] : t \in DOMAIN map \cap {ScopeText(ParentScope(scope))}}
                  ELSE {}
    IN  IF exact # {} THEN exact ELSE parent
=============================================================================
