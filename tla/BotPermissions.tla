--------------------------- MODULE BotPermissions ---------------------------
(***************************************************************************)
(* The permissions of a bot in the TypeScript SDK (domain/permissions.ts): *)
(* three bit masks, in which the n-th permission of a list is bit n - 1.   *)
(* Granting goes by the order of the lists, asking by a table of bit       *)
(* numbers that is kept beside them.                                       *)
(***************************************************************************)
EXTENDS Integers, FiniteSetsExt

ChatPermissionList ==
    <<"ChangeRoles", "UpdateGroup", "AddMembers", "InviteUsers", "RemoveMembers",
      "DeleteMessages", "PinMessages", "ReactToMessages", "MentionAllMembers",
      "StartVideoCall", "ReadMessages", "ReadMembership", "ReadChatDetails">>

CommunityPermissionList ==
    <<"ChangeRoles", "UpdateDetails", "InviteUsers", "RemoveMembers",
      "CreatePublicChannel", "CreatePrivateChannel", "ManageUserGroups">>

MessagePermissionList ==
    <<"Text", "Image", "Video", "Audio", "File", "Poll", "Crypto", "Giphy",
      "Prize", "P2pSwap", "VideoCall">>

ChatPermissions == {ChatPermissionList[i] : i \in DOMAIN ChatPermissionList}
CommunityPermissions == {CommunityPermissionList[i] : i \in DOMAIN CommunityPermissionList}
MessagePermissions == {MessagePermissionList[i] : i \in DOMAIN MessagePermissionList}

ChatPermissionsMap ==
    [ChangeRoles |-> 0, UpdateGroup |-> 1, AddMembers |-> 2, InviteUsers |-> 3,
     RemoveMembers |-> 4, DeleteMessages |-> 5, PinMessages |-> 6,
     ReactToMessages |-> 7, MentionAllMembers |-> 8, StartVideoCall |-> 9,
     ReadMessages |-> 10, ReadMembership |-> 11, ReadChatDetails |-> 12]

CommunityPermissionMap ==
    [ChangeRoles |-> 0, UpdateDetails |-> 1, InviteUsers |-> 2, RemoveMembers |-> 3,
     CreatePublicChannel |-> 4, CreatePrivateChannel |-> 5, ManageUserGroups |-> 6]

MessagePermissionMap ==
    [Text |-> 0, Image |-> 1, Video |-> 2, Audio |-> 3, File |-> 4, Poll |-> 5,
     Crypto |-> 6, Giphy |-> 7, Prize |-> 8, P2pSwap |-> 9, VideoCall |-> 10]

-----------------------------------------------------------------------------
(* Permissions.#permissionsToBits *)
PermissionsToBits(permissions, all) ==
    MapThenSumSet(LAMBDA i : 2 ^ (i - 1), {i \in DOMAIN all : all[i] \in permissions})

(* Permissions.encodePermissions, and the BotPermissions that tokens carry.*)
(* A mask that is missing from a token is taken for 0.                     *)
EncodePermissions(granted) ==
    [community |-> PermissionsToBits(granted.community, CommunityPermissionList),
     chat |-> PermissionsToBits(granted.chat, ChatPermissionList),
     message |-> PermissionsToBits(granted.message, MessagePermissionList)]

Granted == [community : SUBSET CommunityPermissions,
            chat : SUBSET ChatPermissions,
            message : SUBSET MessagePermissions]

NothingGranted == [community |-> {}, chat |-> {}, message |-> {}]

(* Permissions.#hasPermission *)
HasPermission(granted, requested) == (granted \div 2 ^ requested) % 2 = 1

HasMessagePermission(permissions, p) ==
    HasPermission(permissions.message, MessagePermissionMap[p])

HasChatPermission(permissions, p) ==
    HasPermission(permissions.chat, ChatPermissionsMap[p])

HasCommunityPermission(permissions, p) ==
    HasPermission(permissions.community, CommunityPermissionMap[p])

-----------------------------------------------------------------------------
(* Asking a mask for a permission finds exactly what was granted: the      *)
(* table beside a list numbers it as its order does.                       *)
MaskAgrees(permissions, all, table) ==
    \A granted \in SUBSET permissions :
        LET mask == PermissionsToBits(granted, all)
        IN  \A p \in permissions : HasPermission(mask, table[p]) <=> p \in granted

MasksAgree ==
    /\ MaskAgrees(ChatPermissions, ChatPermissionList, ChatPermissionsMap)
    /\ MaskAgrees(CommunityPermissions, CommunityPermissionList, CommunityPermissionMap)
    /\ MaskAgrees(MessagePermissions, MessagePermissionList, MessagePermissionMap)
=============================================================================
