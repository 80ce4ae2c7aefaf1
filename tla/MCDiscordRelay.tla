--------------------------- MODULE MCDiscordRelay ---------------------------
(***************************************************************************)
(* Small instances of the Discord bot for TLC: two Discord channels, and   *)
(* two tasks for their events beside the relay task.                       *)
(***************************************************************************)
EXTENDS DiscordRelayRefinement, TLC

CONSTANTS general, random, old, new, first, second

MCChannels == {general, random}
MCOneChannel == {general}
MCKeys == {old, new}
MCOneKey == {old}
MCHandlers == {first, second}
MCSymmetry ==
    Permutations(MCChannels) \cup Permutations(MCKeys) \cup Permutations(MCHandlers)
=============================================================================
