------------------------------- MODULE MCPing -------------------------------
(***************************************************************************)
(* A small instance of the ping example for TLC: a channel, which commands *)
(* reach with or without a thread, and its community; two keys for the     *)
(* channel and one for the community.                                      *)
(***************************************************************************)
EXTENDS PingSubscriptions, TLC

CONSTANTS oldKey, newKey, communityKey, community, general, thread

MCKeys == {oldKey, newKey, communityKey}
MCChannels == {general}
MCCommunities == {community}
MCThreads == {thread}

MCScopeOf ==
    [k \in MCKeys |->
        IF k = communityKey THEN CommunityScope(community)
        ELSE ChatScope([kind |-> "channel", communityId |-> community, channelId |-> general],
                       NoThread)]
MCGrantedTo == [k \in MCKeys |-> [NothingGranted EXCEPT !.message = {"Text"}]]
=============================================================================
