------------------------------- MODULE ApiKeys -------------------------------
(***************************************************************************)
(* The API key registry of the Rust SDK (ApiKeyRegistry).  A bot holds at  *)
(* most one key per scope: a chat or a whole community.  A key is its set  *)
(* of granted permissions; its token is opaque to the bot.                 *)
(***************************************************************************)
EXTENDS Maps

CONSTANTS
    Chats,          \* direct chats, groups and channels the bot is used in
    Communities,    \* the communities those channels belong to
    CommunityOf,    \* the community of a channel, NoCommunity for other chats
    NoCommunity,
    Permissions     \* what a key may grant, "text" among them

ASSUME ApiKeysAssumption ==
    /\ CommunityOf \in [Chats -> Communities \cup {NoCommunity}]
    /\ NoCommunity \notin Communities
    /\ Chats \cap Communities = {}
    /\ "text" \in Permissions

(* ActionScope *)
Scopes == Chats \cup Communities

IsKeys(keys) == IsMap(keys, Scopes, SUBSET Permissions)

(* get_matching_record finds a record under the scope that grants enough. *)
Grants(keys, scope, required) ==
    /\ scope \in DOMAIN keys
    /\ required \subseteq keys[scope]

(* get_key_with_required_permissions: the chat's own key or, for a channel *)
(* without a sufficient one, the key of its community.                     *)
HasKey(keys, chat, required) ==
    \/ Grants(keys, chat, required)
    \/ /\ CommunityOf[chat] # NoCommunity
       /\ Grants(keys, CommunityOf[chat], required)
=============================================================================
