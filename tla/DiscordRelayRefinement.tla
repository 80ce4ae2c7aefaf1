----------------------- MODULE DiscordRelayRefinement -----------------------
(***************************************************************************)
(* The Discord bot implements the message pipe.  A message is pending from *)
(* the moment it enters the channel until OpenChat has answered, or until  *)
(* it is received and dropped; the pipe is open while the bot runs and its *)
(* relay task has not ended.                                               *)
(***************************************************************************)
EXTENDS DiscordRelay

Pipe == INSTANCE MessagePipe WITH
    Messages <- Messages,
    Capacity <- QueueSize + 1,
    open <- up /\ at[Relay] # "dead",
    pending <- IF at[Relay] = "call" THEN <<message[Relay]>> \o queue ELSE queue

(* Messages are relayed in the order in which they entered the channel,    *)
(* each once, and none is lost unless the bot crashes or the relay task    *)
(* ends: not to the commands, nor to the tasks that wait for room.         *)
ImplementsPipe == Pipe!Spec

(* ... and as long as the pipe is open each message in it is settled: no   *)
(* call, save or command keeps the relay task from the messages behind.    *)
ImplementsFairPipe == Pipe!FairSpec
=============================================================================
