---------------------------- MODULE DiscordRelay ----------------------------
(***************************************************************************)
(* The Discord bot, which relays the messages of Discord channels to       *)
(* OpenChat.  It is one process with concurrent tasks: one per Discord     *)
(* event (a message, /connect, /disconnect) and one, Relay, that takes the *)
(* messages from a bounded channel and sends them on.  The tasks share the *)
(* relay links, in a map behind a lock, and each saves the whole map to    *)
(* one file after it has changed it.                                       *)
(*                                                                         *)
(* A task is interleaved with the others wherever it awaits, and while it  *)
(* writes the file, since the tasks run on several threads.                *)
(***************************************************************************)
EXTENDS Maps, Integers, Sequences, SequencesExt

CONSTANTS
    Channels,      \* the Discord channels
    Keys,          \* valid API keys, each of an OpenChat channel
    NoKey,
    Handlers,      \* the tasks that handle Discord events
    Relay,         \* the task of handle_openchat_events
    QueueSize,     \* the capacity of the channel (32)
    NoMessage, NoLink,
    NoFile,        \* there is no file yet
    Empty,         \* the file is truncated: nothing is written yet
    Garbled,       \* its content cannot be decoded
    MaxPosts,      \* bound on the number of Discord messages
    MaxCommands,   \* bound on the number of commands
    MaxFaults      \* bound on the number of crashes and of operations on the
                   \* file that fail

ASSUME DiscordRelayAssumption ==
    /\ NoKey \notin Keys
    /\ NoLink \notin [key : Keys, failed : BOOLEAN]
    /\ Relay \notin Handlers
    /\ QueueSize \in Nat \ {0}
    /\ MaxPosts \in Nat
    /\ MaxCommands \in Nat
    /\ MaxFaults \in Nat

Tasks == Handlers \cup {Relay}
Links == [key : Keys, failed : BOOLEAN]
Messages == [id : 1..MaxPosts, channel : Channels]

VARIABLES
    up,          \* whether the process runs
    links,       \* BotState.relay_links
    file,        \* the state file
    queue,       \* the messages in the channel
    at,          \* the await, or file operation, each task is at
    message,     \* the message each task handles
    clone,       \* the link each task has read and will write back
    snapshot,    \* the map each task has serialised and will write
    posts, commands, faults,
    given,       \* history: the keys /connect was given for each channel
    wanted,      \* history: what the last command on each channel asked for
    missed,      \* history: the channels whose last message to be relayed did
                 \* not reach OpenChat, since /connect or the bot's start
    crossed      \* history: the channels whose last command crossed a task
                 \* that had read the link before, or was lost by a restart

state == <<links, file, snapshot>>
history == <<given, missed, wanted, crossed>>
bounds == <<posts, commands, faults>>
vars == <<up, state, queue, at, message, clone, bounds, history>>

IsLinks(map) == IsMap(map, Channels, Links)

TypeOK ==
    /\ up \in BOOLEAN
    /\ IsLinks(links)
    /\ file \in {NoFile, Empty, Garbled} \/ IsLinks(file)
    /\ queue \in Seq(Messages) /\ Len(queue) <= QueueSize
    /\ at \in [Tasks -> {"idle", "push", "flag", "call", "save", "open", "write", "dead"}]
    /\ message \in [Tasks -> Messages \cup {NoMessage}]
    /\ clone \in [Tasks -> Links \cup {NoLink}]
    /\ DOMAIN snapshot = Tasks /\ \A t \in Tasks : IsLinks(snapshot[t])
    /\ posts \in 0..MaxPosts /\ commands \in 0..MaxCommands /\ faults \in 0..MaxFaults
    /\ given \subseteq Channels \X Keys
    /\ missed \subseteq Channels
    /\ wanted \in [Channels -> Keys \cup {NoKey}]
    /\ crossed \subseteq Channels

Idle == [t \in Tasks |-> "idle"]
NoMessages == [t \in Tasks |-> NoMessage]
NoLinks == [t \in Tasks |-> NoLink]
NoSnapshots == [t \in Tasks |-> EmptyMap]

Init ==
    /\ up = TRUE
    /\ links = EmptyMap
    /\ file = NoFile
    /\ queue = <<>>
    /\ at = Idle
    /\ message = NoMessages
    /\ clone = NoLinks
    /\ snapshot = NoSnapshots
    /\ posts = 0 /\ commands = 0 /\ faults = 0
    /\ given = {}
    /\ missed = {}
    /\ wanted = [c \in Channels |-> NoKey]
    /\ crossed = {}

Goto(t, step) == at' = [at EXCEPT ![t] = step]

(* The key in the link of a channel, if there is one *)
KeyOf(map, c) == IF c \in DOMAIN map THEN map[c].key ELSE NoKey

-----------------------------------------------------------------------------
(* Commands of Discord *)

(* Some task has read the link of c and is going to write it back. *)
LinkIsHeld(c) == \E t \in Tasks : clone[t] # NoLink /\ message[t].channel = c

Commanded(c, key) ==
    /\ commands < MaxCommands
    /\ commands' = commands + 1
    /\ wanted' = [wanted EXCEPT ![c] = key]
    /\ crossed' = IF LinkIsHeld(c) THEN crossed \cup {c} ELSE crossed \ {c}
    /\ UNCHANGED <<posts, faults>>

(* Fault: the link of a connected channel is kept (entry().or_insert()). *)
FaultyConnectedLink(c, key) ==
    IF c \in DOMAIN links THEN links[c] ELSE [key |-> key, failed |-> FALSE]

(* RelayLink::new *)
ConnectedLink(c, key) == [key |-> key, failed |-> FALSE]

(* /connect with a valid key: set_relay_link inserts the link and goes on  *)
(* to save the map.  An invalid key changes nothing.                       *)
Connect(t, c, key) ==
    /\ up /\ at[t] = "idle"
    /\ links' = Put(links, c, ConnectedLink(c, key))
    /\ Goto(t, "save")
    /\ given' = given \cup {<<c, key>>}
    /\ missed' = missed \ {c}
    /\ Commanded(c, key)
    /\ UNCHANGED <<up, file, snapshot, queue, message, clone>>

(* /disconnect: remove_relay_link, which does not save the map. *)
Disconnect(c) ==
    /\ up
    /\ links' = Without(links, c)
    /\ Commanded(c, NoKey)
    /\ UNCHANGED <<up, file, snapshot, queue, at, message, clone, given, missed>>

-----------------------------------------------------------------------------
(* Messages of Discord *)

(* proxy_message starts for a message that is not the bot's own. *)
Post(t, c) ==
    /\ up /\ at[t] = "idle"
    /\ posts < MaxPosts
    /\ posts' = posts + 1
    /\ message' = [message EXCEPT ![t] = [id |-> posts + 1, channel |-> c]]
    /\ Goto(t, "push")
    /\ UNCHANGED <<up, state, queue, clone, commands, faults, history>>

(* Fault: one message more than the capacity fits in. *)
FaultyHasRoom == Len(queue) <= QueueSize

(* tx.send(...).await returns when there is room. *)
HasRoom == Len(queue) < QueueSize

Push(t) ==
    /\ at[t] = "push"
    /\ at[Relay] # "dead"
    /\ HasRoom
    /\ queue' = Append(queue, message[t])
    /\ message' = [message EXCEPT ![t] = NoMessage]
    /\ Goto(t, "idle")
    /\ UNCHANGED <<up, state, clone, bounds, history>>

(* Fault: the lookup does not regard the channel. *)
FaultyLinkOf(c) == links[CHOOSE d \in DOMAIN links : TRUE]

(* get_relay_link, for a channel that has a link *)
LinkOf(c) == links[c]

(* Fault: the receiver outlives the relay task, so that send waits. *)
FaultyPushWaits(t) == FALSE /\ UNCHANGED vars

(* Fault: the error of send is not handled. *)
FaultyPushForgets(t) ==
    /\ at[t] = "push"
    /\ at[Relay] = "dead"
    /\ Goto(t, "idle")
    /\ message' = [message EXCEPT ![t] = NoMessage]
    /\ UNCHANGED <<up, state, queue, clone, bounds, history>>

(* ... or fails, because the receiver is gone; the link is read. *)
PushFails(t) ==
    /\ at[t] = "push"
    /\ at[Relay] = "dead"
    /\ \/ /\ message[t].channel \in DOMAIN links
          /\ clone' = [clone EXCEPT ![t] = LinkOf(message[t].channel)]
          /\ Goto(t, "flag")
          /\ UNCHANGED message
       \/ /\ message[t].channel \notin DOMAIN links
          /\ Goto(t, "idle")
          /\ message' = [message EXCEPT ![t] = NoMessage]
          /\ UNCHANGED clone
    /\ UNCHANGED <<up, state, queue, bounds, history>>

(* set_relay_link writes the link read before back, with or without the    *)
(* error.                                                                  *)
WriteBack(t, failed) ==
    /\ links' = Put(links, message[t].channel, [clone[t] EXCEPT !.failed = failed])
    /\ message' = [message EXCEPT ![t] = NoMessage]
    /\ clone' = [clone EXCEPT ![t] = NoLink]
    /\ Goto(t, "save")
    /\ UNCHANGED <<up, file, snapshot, queue, bounds, given, wanted, crossed>>

(* "Message did not reach OpenChat handler bot!" *)
Flag(t) ==
    /\ at[t] = "flag"
    /\ WriteBack(t, TRUE)
    /\ missed' = missed \cup {message[t].channel}

-----------------------------------------------------------------------------
(* The relay task *)

(* Fault: the newest message is taken first. *)
FaultyReceived == [next |-> Last(queue), rest |-> Front(queue)]

(* rx.recv() *)
Received == [next |-> Head(queue), rest |-> Tail(queue)]

(* A message is received and the link of its channel read.  Without a link *)
(* or without any content it is dropped.                                   *)
Receive ==
    /\ at[Relay] = "idle"
    /\ up
    /\ queue # <<>>
    /\ queue' = Received.rest
    /\ \/ /\ Received.next.channel \in DOMAIN links
          /\ message' = [message EXCEPT ![Relay] = Received.next]
          /\ clone' = [clone EXCEPT ![Relay] = LinkOf(Received.next.channel)]
          /\ Goto(Relay, "call")
       \/ UNCHANGED <<message, clone, at>>
    /\ UNCHANGED <<up, state, bounds, history>>

(* The call to OpenChat ends.  A response of any kind, a refusal included, *)
(* clears the error of the link; an error of the call sets it.             *)
Answer ==
    /\ at[Relay] = "call"
    /\ \E response \in {"success", "refused", "error"} :
            /\ WriteBack(Relay, response = "error")
            /\ missed' = IF response = "success"
                         THEN missed \ {message[Relay].channel}
                         ELSE missed \cup {message[Relay].channel}

-----------------------------------------------------------------------------
(* Saving the map *)

(* Fault: the write lock is held while persist waits for the read lock. *)
FaultyTakeSnapshot(t) == FALSE /\ UNCHANGED vars

(* prepare_store_data *)
TakeSnapshot(t) ==
    /\ at[t] = "save"
    /\ snapshot' = [snapshot EXCEPT ![t] = links]
    /\ Goto(t, "open")
    /\ UNCHANGED <<up, links, file, queue, message, clone, bounds, history>>

(* fs::File::create *)
Truncate(t) ==
    /\ at[t] = "open"
    /\ file' = Empty
    /\ Goto(t, "write")
    /\ UNCHANGED <<up, links, snapshot, queue, message, clone, bounds, history>>

(* persist is over, for better or for worse. *)
EndSave(t, step) ==
    /\ snapshot' = [snapshot EXCEPT ![t] = EmptyMap]
    /\ Goto(t, step)
    /\ UNCHANGED <<up, links, message, clone, posts, commands, history>>

(* write_all.  If another task wrote since the file was truncated last,    *)
(* its text is overwritten from the start, and what exceeds the new text   *)
(* remains behind it.                                                      *)
Write(t) ==
    /\ at[t] = "write"
    /\ \/ file' = snapshot[t]
       \/ file \notin {Empty, snapshot[t]} /\ file' = Garbled
    /\ EndSave(t, "idle")
    /\ UNCHANGED <<queue, faults>>

(* An operation on the file fails; a write may have been done in part.     *)
(* The error ends the task of an event, or the relay task with the         *)
(* receiver and the messages in the channel.                               *)
SaveFails(t) ==
    /\ faults < MaxFaults
    /\ faults' = faults + 1
    /\ \/ at[t] = "open" /\ UNCHANGED file
       \/ at[t] = "write" /\ file' \in {file, Garbled}
    /\ EndSave(t, IF t = Relay THEN "dead" ELSE "idle")
    /\ queue' = IF t = Relay THEN <<>> ELSE queue

Save(t) == TakeSnapshot(t) \/ Truncate(t) \/ Write(t) \/ SaveFails(t)

-----------------------------------------------------------------------------
(* Crash and restart *)

(* The process ends at any moment; the file alone remains. *)
Crash ==
    /\ up
    /\ faults < MaxFaults
    /\ faults' = faults + 1
    /\ up' = FALSE
    /\ links' = EmptyMap
    /\ queue' = <<>>
    /\ at' = Idle
    /\ message' = NoMessages
    /\ clone' = NoLinks
    /\ snapshot' = NoSnapshots
    /\ missed' = {}
    /\ UNCHANGED <<file, posts, commands, given, wanted, crossed>>

(* BotState::restore.  The bot does not start on a file it cannot decode. *)
Restart ==
    /\ ~up
    /\ file \notin {Empty, Garbled}
    /\ up' = TRUE
    /\ links' = IF file = NoFile THEN EmptyMap ELSE file
    /\ crossed' = {c \in Channels : KeyOf(links', c) # wanted[c]}
    /\ UNCHANGED <<file, snapshot, queue, at, message, clone, bounds, given, missed, wanted>>

-----------------------------------------------------------------------------
EventTask(t) == Push(t) \/ PushFails(t) \/ Flag(t) \/ Save(t)

RelayTask == Receive \/ Answer \/ Save(Relay)

Next ==
    \/ \E t \in Handlers, c \in Channels, key \in Keys : Connect(t, c, key)
    \/ \E c \in Channels : Disconnect(c)
    \/ \E t \in Handlers, c \in Channels : Post(t, c)
    \/ \E t \in Handlers : EventTask(t)
    \/ RelayTask
    \/ Crash
    \/ Restart

Spec == Init /\ [][Next]_vars

(* tokio runs every task that can go on, its channel serves the senders in *)
(* the order they came, and calls to OpenChat end.                         *)
FairSpec ==
    /\ Spec
    /\ \A t \in Handlers : WF_vars(EventTask(t)) /\ SF_vars(Push(t))
    /\ WF_vars(RelayTask)

-----------------------------------------------------------------------------
(* Invariants *)

(* A message is relayed, and its link kept in memory and in a readable     *)
(* file, only with a key that /connect was given in the very channel of    *)
(* the message: tasks that run at the same time never mix up the links of  *)
(* channels, even when several of them write the file or a crash cuts in.  *)
OnlyGivenKeys ==
    LET known(map) == \A c \in DOMAIN map : <<c, map[c].key>> \in given
    IN  /\ known(links)
        /\ file \notin {NoFile, Empty, Garbled} => known(file)
        /\ \A t \in Tasks : clone[t] # NoLink => <<message[t].channel, clone[t].key>> \in given

(* A channel is linked as the last command on it asked for, unless that    *)
(* command crossed a task that had read the link before, or a restart lost *)
(* it: these are the only ways in which /connect and /disconnect fail.     *)
CommandsHold ==
    up => \A c \in Channels \ crossed : KeyOf(links, c) = wanted[c]

(* A task is at an await of proxy_message or of the relay task exactly     *)
(* with what it holds there, and only while the bot runs.                  *)
Places ==
    /\ \A t \in Tasks :
        /\ at[t] \in {"push", "flag", "call"} => message[t] \in Messages
        /\ clone[t] # NoLink <=> at[t] \in {"flag", "call"}
    /\ ~up => at = Idle

(* Also what is about to be written to the file has keys that were given.  *)
SnapshotsGiven ==
    \A t \in Tasks : \A c \in DOMAIN snapshot[t] : <<c, snapshot[t][c].key>> \in given

(* What a task will write back is what the last command on the channel     *)
(* asked for, unless they crossed.                                         *)
ClonesHold ==
    \A t \in Tasks : clone[t] # NoLink /\ message[t].channel \notin crossed =>
        clone[t].key = wanted[message[t].channel]

(* The inductive invariant behind CommandsHold and OnlyGivenKeys *)
IInv ==
    /\ TypeOK /\ Places
    /\ OnlyGivenKeys /\ SnapshotsGiven
    /\ CommandsHold /\ ClonesHold

(* The command /disconnect "will stop messages from being relayed to the   *)
(* OpenChat API" (discord/commands.rs).                                    *)
DisconnectHolds ==
    up => \A c \in DOMAIN links : wanted[c] # NoKey

(* "If a message relay failed, [/status] will also indicate that", from the *)
(* error in the link (discord/commands.rs).                                *)
MissedShows == \A c \in missed \cap DOMAIN links : links[c].failed

(* What /connect has set survives a restart: when no task is saving and      *)
(* there was no fault, the file is readable and has the key of every link  *)
(* of the memory ("Persist current state!", state.rs).                     *)
ConnectPersists ==
    faults = 0 /\ up /\ (\A t \in Tasks : at[t] \notin {"save", "open", "write"}) =>
        \A c \in DOMAIN links :
            file \notin {NoFile, Empty, Garbled} /\ KeyOf(file, c) = links[c].key

-----------------------------------------------------------------------------
(* Liveness *)

(* No Discord event waits for ever for room in the channel, not even when  *)
(* the relay task has ended.                                               *)
SendersProceed ==
    \A t \in Handlers : at[t] = "push" ~> at[t] # "push"

(* Once the relay task has ended, a message posted in a linked channel     *)
(* makes the link show the failure (unless it is disconnected, or the bot  *)
(* restarts).                                                              *)
DeadRelayShows ==
    \A c \in Channels :
        /\ at[Relay] = "dead"
        /\ c \in DOMAIN links
        /\ \E t \in Handlers : at[t] = "push" /\ message[t].channel = c
        ~> ~up \/ c \notin DOMAIN links \/ links[c].failed
=============================================================================
