---------------------------- MODULE MCReminderBot ----------------------------
(***************************************************************************)
(* Small instances of the reminder bot for TLC: two interchangeable groups *)
(* for the invariants; for the temporal properties one channel, whose      *)
(* reminders may be sent with the key of its community.                    *)
(***************************************************************************)
EXTENDS ReminderRefinement, TLC

CONSTANTS group, club, channel, community

MCGroups == {group, club}
MCNoCommunities == {}
MCCommunityOfGroup == [c \in MCGroups |-> NoCommunity]
MCSymmetry == Permutations(MCGroups)

MCChannels == {channel}
MCCommunities == {community}
MCCommunityOfChannel == [c \in MCChannels |-> community]

(* With MinGap = 2 the second is too frequent at instant 0, and accepted   *)
(* at instant 1, when one occurrence is left.                              *)
MCSchedules == {{1, 3}, {1, 2}}
=============================================================================
