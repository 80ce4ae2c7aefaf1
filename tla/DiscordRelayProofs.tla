------------------------- MODULE DiscordRelayProofs -------------------------
(***************************************************************************)
(* Type correctness of the Discord bot, the invariance of IInv, and that   *)
(* the bot implements the message pipe, for every set of channels, keys    *)
(* and tasks, and every capacity and bound.                                *)
(***************************************************************************)
EXTENDS DiscordRelayRefinement, MapTheorems

-----------------------------------------------------------------------------
(* Type correctness *)

(* The bot starts without links, file and messages. *)
LEMMA TypeInit == Init => TypeOK /\ Places
<1> SUFFICES ASSUME Init
             PROVE  TypeOK /\ Places
  OBVIOUS
<1>1. IsLinks(links) /\ \A t \in Tasks : IsLinks(snapshot[t])
  BY EmptyIsMap DEF Init, IsLinks, NoSnapshots
<1>2. queue \in Seq(Messages) /\ Len(queue) <= QueueSize
  BY DiscordRelayAssumption DEF Init
<1>3. posts \in 0..MaxPosts /\ commands \in 0..MaxCommands /\ faults \in 0..MaxFaults
  BY DiscordRelayAssumption DEF Init
<1>4. TypeOK
  BY <1>1, <1>2, <1>3 DEF TypeOK, Init, Idle, NoMessages, NoLinks, NoSnapshots
<1>5. Places
  BY DEF Places, Init, Idle, NoLinks
<1> QED
  BY <1>4, <1>5

(* A link in the map is a link. *)
LEMMA LinksType ==
    ASSUME NEW map, IsLinks(map), NEW c \in DOMAIN map
    PROVE  c \in Channels /\ map[c] \in Links /\ map[c].key \in Keys /\ map[c] # NoLink
BY DiscordRelayAssumption DEF IsLinks, IsMap, Links

(* A message in the channel is a message, and taking it leaves messages. *)
LEMMA ReceivedType ==
    ASSUME TypeOK, queue # <<>>
    PROVE  /\ Received.next \in Messages
           /\ Received.rest \in Seq(Messages)
           /\ Len(Received.rest) <= QueueSize
BY DiscordRelayAssumption DEF TypeOK, Received

(* An empty channel is within its capacity. *)
LEMMA EmptyQueueType == <<>> \in Seq(Messages) /\ Len(<<>>) <= QueueSize
<1>1. Len(<<>>) = 0 /\ QueueSize \in Nat
  BY DiscordRelayAssumption
<1>2. <<>> \in Seq(Messages)
  OBVIOUS
<1> QED
  BY <1>1, <1>2

(* Writing a link back keeps the types. *)
LEMMA WriteBackType ==
    ASSUME TypeOK, Places, NEW t \in Tasks, at[t] \in {"flag", "call"},
           NEW failed \in BOOLEAN, WriteBack(t, failed)
    PROVE  /\ IsLinks(links')
           /\ message[t] \in Messages /\ message[t].channel \in Channels
           /\ clone[t] \in Links /\ clone[t] # NoLink
           /\ links' = Put(links, message[t].channel, [key |-> clone[t].key, failed |-> failed])
<1>1. message[t] \in Messages /\ clone[t] \in Links /\ clone[t] # NoLink
  BY DEF Places, TypeOK
<1>2. message[t].channel \in Channels
  BY <1>1 DEF Messages
<1>3. [clone[t] EXCEPT !.failed = failed] = [key |-> clone[t].key, failed |-> failed]
  BY <1>1 DEF Links
<1>4. [key |-> clone[t].key, failed |-> failed] \in Links
  BY <1>1 DEF Links
<1>5. links' = Put(links, message[t].channel, [key |-> clone[t].key, failed |-> failed])
  BY <1>3 DEF WriteBack
<1>6. IsLinks(links')
  BY <1>2, <1>4, <1>5, PutIsMap DEF TypeOK, IsLinks
<1> QED
  BY <1>1, <1>2, <1>5, <1>6

(* Every step of the bot keeps the types and the tasks in their places. *)
LEMMA TypeStep == TypeOK /\ Places /\ [Next]_vars => TypeOK' /\ Places'
<1> SUFFICES ASSUME TypeOK, Places, [Next]_vars
             PROVE  TypeOK' /\ Places'
  OBVIOUS
<1> USE DiscordRelayAssumption
<1>1. ASSUME NEW t \in Handlers, NEW c \in Channels, NEW key \in Keys, Connect(t, c, key)
      PROVE  TypeOK' /\ Places'
  <2>1. IsLinks(links')
    <3>1. ConnectedLink(c, key) \in Links
      BY DEF ConnectedLink, Links
    <3> QED
      BY <1>1, <3>1, PutIsMap DEF Connect, TypeOK, IsLinks
  <2>2. TypeOK'
    BY <1>1, <2>1 DEF TypeOK, Connect, Commanded, Goto, Tasks
  <2>3. Places'
    BY <1>1 DEF Places, TypeOK, Connect, Goto, Tasks
  <2> QED
    BY <2>2, <2>3
<1>2. ASSUME NEW c \in Channels, Disconnect(c)
      PROVE  TypeOK' /\ Places'
  <2>1. IsLinks(links')
    BY <1>2, WithoutIsMap DEF Disconnect, TypeOK, IsLinks
  <2>2. TypeOK'
    BY <1>2, <2>1 DEF TypeOK, Disconnect, Commanded
  <2>3. Places'
    BY <1>2 DEF Places, Disconnect
  <2> QED
    BY <2>2, <2>3
<1>3. ASSUME NEW t \in Handlers, NEW c \in Channels, Post(t, c)
      PROVE  TypeOK' /\ Places'
  <2>1. [id |-> posts + 1, channel |-> c] \in Messages
    BY <1>3 DEF Post, Messages, TypeOK
  <2>2. TypeOK'
    BY <1>3, <2>1 DEF TypeOK, Post, Goto, state, history, Tasks
  <2>3. Places'
    BY <1>3, <2>1 DEF Places, TypeOK, Post, Goto, state, Tasks
  <2> QED
    BY <2>2, <2>3
<1>4. ASSUME NEW t \in Handlers, Push(t)
      PROVE  TypeOK' /\ Places'
  <2>1. queue' \in Seq(Messages) /\ Len(queue') <= QueueSize
    BY <1>4 DEF Push, HasRoom, TypeOK, Places, Tasks
  <2>2. TypeOK'
    BY <1>4, <2>1 DEF TypeOK, Push, Goto, state, bounds, history, Tasks
  <2>3. Places'
    BY <1>4 DEF Places, Idle, TypeOK, Push, Goto, state, Tasks
  <2> QED
    BY <2>2, <2>3
<1>5. ASSUME NEW t \in Handlers, PushFails(t)
      PROVE  TypeOK' /\ Places'
  <2>1. message[t].channel \in DOMAIN links =>
            LinkOf(message[t].channel) \in Links /\ LinkOf(message[t].channel) # NoLink
    BY LinksType DEF TypeOK, LinkOf
  <2>2. TypeOK'
    BY <1>5, <2>1 DEF TypeOK, PushFails, Goto, state, bounds, history, Tasks
  <2>3. Places'
    BY <1>5, <2>1 DEF Places, Idle, TypeOK, PushFails, Goto, state, Tasks
  <2> QED
    BY <2>2, <2>3
<1>6. ASSUME NEW t \in Tasks, at[t] \in {"flag", "call"}, NEW failed \in BOOLEAN,
             WriteBack(t, failed), missed' \subseteq missed \cup {message[t].channel}
      PROVE  TypeOK' /\ Places'
  <2>1. IsLinks(links') /\ message[t].channel \in Channels
    BY <1>6, WriteBackType
  <2>2. TypeOK'
    BY <1>6, <2>1 DEF TypeOK, WriteBack, Goto, bounds
  <2>3. Places'
    BY <1>6 DEF Places, Idle, TypeOK, WriteBack, Goto
  <2> QED
    BY <2>2, <2>3
<1>7. ASSUME Receive
      PROVE  TypeOK' /\ Places'
  <2>1. /\ Received.next \in Messages /\ Received.rest \in Seq(Messages)
        /\ Len(Received.rest) <= QueueSize
    BY <1>7, ReceivedType DEF Receive
  <2>2. Received.next.channel \in DOMAIN links =>
            LinkOf(Received.next.channel) \in Links /\ LinkOf(Received.next.channel) # NoLink
    BY LinksType DEF TypeOK, LinkOf
  <2>3. TypeOK'
    BY <1>7, <2>1, <2>2 DEF TypeOK, Receive, Goto, state, bounds, history, Tasks
  <2>4. Places'
    BY <1>7, <2>1, <2>2 DEF Places, TypeOK, Receive, Goto, state, Tasks
  <2> QED
    BY <2>3, <2>4
<1>8. ASSUME NEW t \in Tasks, Save(t)
      PROVE  TypeOK' /\ Places'
  <2>1. CASE TakeSnapshot(t)
    <3>1. TypeOK'
      BY <2>1 DEF TypeOK, TakeSnapshot, Goto, bounds, history
    <3>2. Places'
      BY <2>1 DEF Places, Idle, TypeOK, TakeSnapshot, Goto
    <3> QED
      BY <3>1, <3>2
  <2>2. CASE Truncate(t)
    <3>1. TypeOK'
      BY <2>2 DEF TypeOK, Truncate, Goto, bounds, history
    <3>2. Places'
      BY <2>2 DEF Places, Idle, TypeOK, Truncate, Goto
    <3> QED
      BY <3>1, <3>2
  <2>3. ASSUME NEW step \in {"idle", "dead"}, EndSave(t, step), at[t] \in {"open", "write"},
               file' \in {file, Garbled, snapshot[t]}, queue' \in {queue, <<>>},
               faults' \in 0..MaxFaults
        PROVE  TypeOK' /\ Places'
    <3>1. IsLinks(EmptyMap)
      BY EmptyIsMap DEF IsLinks
    <3>2. DOMAIN snapshot' = Tasks /\ \A u \in Tasks : IsLinks(snapshot'[u])
      BY <2>3, <3>1 DEF TypeOK, EndSave
    <3>3. file' \in {NoFile, Empty, Garbled} \/ IsLinks(file')
      BY <2>3 DEF TypeOK
    <3>4. queue' \in Seq(Messages) /\ Len(queue') <= QueueSize
      BY <2>3, EmptyQueueType DEF TypeOK
    <3>5. at' \in [Tasks -> {"idle", "push", "flag", "call", "save", "open", "write", "dead"}]
      BY <2>3 DEF TypeOK, EndSave, Goto
    <3>6. TypeOK'
      BY <2>3, <3>2, <3>3, <3>4, <3>5 DEF TypeOK, EndSave, history
    <3>7. Places'
      BY <2>3 DEF Places, Idle, TypeOK, EndSave, Goto
    <3> QED
      BY <3>6, <3>7
  <2>4. CASE Write(t)
    BY <2>3, <2>4 DEF Write, TypeOK
  <2>5. CASE SaveFails(t)
    <3>1. faults' \in 0..MaxFaults
      BY <2>5 DEF SaveFails, TypeOK
    <3> QED
      BY <2>3, <2>5, <3>1 DEF SaveFails
  <2> QED
    BY <1>8, <2>1, <2>2, <2>4, <2>5 DEF Save
<1>9. ASSUME Crash
      PROVE  TypeOK' /\ Places'
  <2>1. IsLinks(EmptyMap)
    BY EmptyIsMap DEF IsLinks
  <2>2. IsLinks(links') /\ \A t \in Tasks : IsLinks(snapshot'[t])
    BY <1>9, <2>1 DEF Crash, NoSnapshots
  <2>3. queue' \in Seq(Messages) /\ Len(queue') <= QueueSize
    BY <1>9, EmptyQueueType DEF Crash
  <2>4. TypeOK'
    <3>1. /\ at' \in [Tasks -> {"idle", "push", "flag", "call", "save", "open", "write", "dead"}]
          /\ message' \in [Tasks -> Messages \cup {NoMessage}]
          /\ clone' \in [Tasks -> Links \cup {NoLink}]
          /\ DOMAIN snapshot' = Tasks
      BY <1>9 DEF Crash, Idle, NoMessages, NoLinks, NoSnapshots
    <3>2. faults' \in 0..MaxFaults
      BY <1>9 DEF Crash, TypeOK
    <3> QED
      BY <1>9, <2>2, <2>3, <3>1, <3>2 DEF TypeOK, Crash
  <2>5. Places'
    BY <1>9 DEF Places, Crash, Idle, NoLinks
  <2> QED
    BY <2>4, <2>5
<1>10. ASSUME Restart
       PROVE  TypeOK' /\ Places'
  <2>1. IsLinks(links')
    BY <1>10, EmptyIsMap DEF Restart, TypeOK, IsLinks
  <2>2. TypeOK'
    BY <1>10, <2>1 DEF TypeOK, Restart, bounds
  <2>3. Places'
    BY <1>10 DEF Places, Restart
  <2> QED
    BY <2>2, <2>3
<1>11. CASE UNCHANGED vars
  <2>1. TypeOK'
    BY <1>11 DEF TypeOK, vars, state, bounds, history
  <2>2. Places'
    BY <1>11 DEF Places, vars, state
  <2> QED
    BY <2>1, <2>2
<1>12. ASSUME NEW t \in Handlers, EventTask(t)
       PROVE  TypeOK' /\ Places'
  BY <1>4, <1>5, <1>6, <1>8, <1>12 DEF EventTask, Flag, Tasks
<1>13. ASSUME RelayTask
       PROVE  TypeOK' /\ Places'
  BY <1>6, <1>7, <1>8, <1>13 DEF RelayTask, Answer, Tasks
<1> QED
  BY <1>1, <1>2, <1>3, <1>9, <1>10, <1>11, <1>12, <1>13 DEF Next

(* Type correctness, with the tasks in their places. *)
THEOREM TypeCorrect == Spec => [](TypeOK /\ Places)
<1>1. TypeOK /\ Places /\ [Next]_vars => (TypeOK /\ Places)'
  BY TypeStep
<1> QED
  BY TypeInit, <1>1, PTL DEF Spec

-----------------------------------------------------------------------------
(* The keys *)

(* Every step keeps to the keys that /connect was given in each channel. *)
LEMMA GivenStep ==
    TypeOK /\ Places /\ OnlyGivenKeys /\ SnapshotsGiven /\ [Next]_vars
        => OnlyGivenKeys' /\ SnapshotsGiven'
<1> SUFFICES ASSUME TypeOK, Places, OnlyGivenKeys, SnapshotsGiven, [Next]_vars
             PROVE  OnlyGivenKeys' /\ SnapshotsGiven'
  OBVIOUS
<1> USE DiscordRelayAssumption
<1>1. ASSUME NEW t \in Handlers, NEW c \in Channels, NEW key \in Keys, Connect(t, c, key)
      PROVE  OnlyGivenKeys' /\ SnapshotsGiven'
  <2>1. /\ DOMAIN links' = DOMAIN links \cup {c} /\ links'[c].key = key
        /\ \A d \in DOMAIN links : d # c => links'[d] = links[d]
    BY <1>1 DEF Connect, ConnectedLink, Put
  <2>2. given' = given \cup {<<c, key>>}
        /\ UNCHANGED <<file, snapshot, message, clone>>
    BY <1>1 DEF Connect
  <2> QED
    BY <2>1, <2>2 DEF OnlyGivenKeys, SnapshotsGiven
<1>2. ASSUME NEW c \in Channels, Disconnect(c)
      PROVE  OnlyGivenKeys' /\ SnapshotsGiven'
  <2>1. /\ DOMAIN links' = DOMAIN links \ {c}
        /\ \A d \in DOMAIN links' : links'[d] = links[d]
    BY <1>2, WithoutEntries DEF Disconnect
  <2> QED
    BY <1>2, <2>1 DEF OnlyGivenKeys, SnapshotsGiven, Disconnect
<1>3. ASSUME NEW t \in Tasks, clone[t] = NoLink,
             \A u \in Tasks : u # t => message'[u] = message[u],
             UNCHANGED <<state, clone, given>>
      PROVE  OnlyGivenKeys' /\ SnapshotsGiven'
  BY <1>3 DEF OnlyGivenKeys, SnapshotsGiven, state
<1>4. ASSUME NEW t \in Handlers, NEW c \in Channels, Post(t, c)
      PROVE  OnlyGivenKeys' /\ SnapshotsGiven'
  <2>1. t \in Tasks /\ clone[t] = NoLink
    BY <1>4 DEF Post, Places, Tasks
  <2>2. \A u \in Tasks : u # t => message'[u] = message[u]
    BY <1>4 DEF Post, TypeOK
  <2> QED
    BY <1>3, <1>4, <2>1, <2>2 DEF Post, history
<1>5. ASSUME NEW t \in Handlers, Push(t)
      PROVE  OnlyGivenKeys' /\ SnapshotsGiven'
  <2>1. t \in Tasks /\ clone[t] = NoLink
    BY <1>5 DEF Push, Places, Tasks
  <2>2. \A u \in Tasks : u # t => message'[u] = message[u]
    BY <1>5 DEF Push, TypeOK
  <2> QED
    BY <1>3, <1>5, <2>1, <2>2 DEF Push, history
<1>6. ASSUME NEW t \in Tasks, NEW c \in DOMAIN links,
             clone' = [clone EXCEPT ![t] = LinkOf(c)], message'[t].channel = c,
             \A u \in Tasks : u # t => message'[u] = message[u],
             UNCHANGED <<state, given>>
      PROVE  OnlyGivenKeys' /\ SnapshotsGiven'
  BY <1>6 DEF OnlyGivenKeys, SnapshotsGiven, state, LinkOf, TypeOK
<1>7. ASSUME NEW t \in Handlers, PushFails(t)
      PROVE  OnlyGivenKeys' /\ SnapshotsGiven'
  <2>1. t \in Tasks /\ clone[t] = NoLink
    BY <1>7 DEF PushFails, Places, Tasks
  <2>2. \A u \in Tasks : u # t => message'[u] = message[u]
    BY <1>7 DEF PushFails, TypeOK
  <2> QED
    BY <1>3, <1>6, <1>7, <2>1, <2>2 DEF PushFails, history
<1>8. ASSUME NEW t \in Tasks, at[t] \in {"flag", "call"}, NEW failed \in BOOLEAN,
             WriteBack(t, failed)
      PROVE  OnlyGivenKeys' /\ SnapshotsGiven'
  <2> DEFINE c == message[t].channel
  <2>1. /\ clone[t] # NoLink
        /\ links' = Put(links, c, [key |-> clone[t].key, failed |-> failed])
    BY <1>8, WriteBackType
  <2>2. /\ DOMAIN links' = DOMAIN links \cup {c} /\ links'[c].key = clone[t].key
        /\ \A d \in DOMAIN links : d # c => links'[d] = links[d]
    BY <2>1 DEF Put
  <2>3. <<c, clone[t].key>> \in given
    BY <2>1 DEF OnlyGivenKeys
  <2>4. \A u \in Tasks : clone'[u] # NoLink => message'[u] = message[u] /\ clone'[u] = clone[u]
    BY <1>8 DEF WriteBack, TypeOK
  <2> QED
    BY <1>8, <2>2, <2>3, <2>4 DEF OnlyGivenKeys, SnapshotsGiven, WriteBack
<1>9. ASSUME Receive
      PROVE  OnlyGivenKeys' /\ SnapshotsGiven'
  <2>1. CASE UNCHANGED <<message, clone, at>>
    BY <1>3, <1>9, <2>1 DEF Receive, OnlyGivenKeys, SnapshotsGiven, state, history
  <2>2. ASSUME Received.next.channel \in DOMAIN links,
               message' = [message EXCEPT ![Relay] = Received.next],
               clone' = [clone EXCEPT ![Relay] = LinkOf(Received.next.channel)]
        PROVE  OnlyGivenKeys' /\ SnapshotsGiven'
    BY <1>6, <1>9, <2>2 DEF Receive, TypeOK, Tasks, history
  <2> QED
    BY <1>9, <2>1, <2>2 DEF Receive
<1>10. ASSUME NEW t \in Tasks, Save(t)
       PROVE  OnlyGivenKeys' /\ SnapshotsGiven'
  <2>1. /\ UNCHANGED <<links, message, clone, given>>
        /\ file' \in {file, Empty, Garbled, snapshot[t]}
        /\ \A u \in Tasks : snapshot'[u] \in {snapshot[u], links, EmptyMap}
    BY <1>10 DEF Save, TakeSnapshot, Truncate, Write, SaveFails, EndSave, history, TypeOK
  <2>2. \A c \in DOMAIN EmptyMap : FALSE
    BY DEF EmptyMap
  <2>3. SnapshotsGiven'
    BY <2>1, <2>2 DEF OnlyGivenKeys, SnapshotsGiven
  <2>4. OnlyGivenKeys'
    BY <2>1 DEF OnlyGivenKeys, SnapshotsGiven
  <2> QED
    BY <2>3, <2>4
<1>11. ASSUME Crash
       PROVE  OnlyGivenKeys' /\ SnapshotsGiven'
  BY <1>11 DEF Crash, OnlyGivenKeys, SnapshotsGiven, EmptyMap, NoSnapshots, NoLinks
<1>12. ASSUME Restart
       PROVE  OnlyGivenKeys' /\ SnapshotsGiven'
  BY <1>12 DEF Restart, OnlyGivenKeys, SnapshotsGiven, EmptyMap
<1>13. CASE UNCHANGED vars
  BY <1>13 DEF OnlyGivenKeys, SnapshotsGiven, vars, state, history
<1>14. ASSUME NEW t \in Handlers, EventTask(t)
       PROVE  OnlyGivenKeys' /\ SnapshotsGiven'
  BY <1>5, <1>7, <1>8, <1>10, <1>14 DEF EventTask, Flag, Tasks
<1>15. ASSUME RelayTask
       PROVE  OnlyGivenKeys' /\ SnapshotsGiven'
  BY <1>8, <1>9, <1>10, <1>15 DEF RelayTask, Answer, Tasks
<1> QED
  BY <1>1, <1>2, <1>4, <1>11, <1>12, <1>13, <1>14, <1>15 DEF Next

-----------------------------------------------------------------------------
(* The commands *)

(* Every step keeps the links as the commands asked, but for those crossed. *)
LEMMA HoldStep ==
    TypeOK /\ Places /\ CommandsHold /\ ClonesHold /\ [Next]_vars
        => CommandsHold' /\ ClonesHold'
<1> SUFFICES ASSUME TypeOK, Places, CommandsHold, ClonesHold, [Next]_vars
             PROVE  CommandsHold' /\ ClonesHold'
  OBVIOUS
<1> USE DiscordRelayAssumption
<1>1. ASSUME NEW c \in Channels, NEW key \in Keys \cup {NoKey}, up, Commanded(c, key),
             KeyOf(links', c) = key,
             \A d \in Channels \ {c} : KeyOf(links', d) = KeyOf(links, d),
             UNCHANGED <<up, message, clone>>
      PROVE  CommandsHold' /\ ClonesHold'
  <2>1. /\ wanted'[c] = key
        /\ \A d \in Channels \ {c} : wanted'[d] = wanted[d]
        /\ \A d \in Channels \ {c} : d \in crossed' <=> d \in crossed
        /\ LinkIsHeld(c) => c \in crossed'
    BY <1>1 DEF Commanded, TypeOK
  <2>2. CommandsHold'
    BY <1>1, <2>1 DEF CommandsHold
  <2>3. ASSUME NEW t \in Tasks, clone'[t] # NoLink, message'[t].channel \notin crossed'
        PROVE  clone'[t].key = wanted'[message'[t].channel]
    <3>1. message[t].channel \in Channels
      BY <1>1, <2>3 DEF Places, Messages
    <3>2. message[t].channel # c
      BY <1>1, <2>1, <2>3 DEF LinkIsHeld
    <3> QED
      BY <1>1, <2>1, <2>3, <3>1, <3>2 DEF ClonesHold
  <2> QED
    BY <2>2, <2>3 DEF ClonesHold
<1>2. ASSUME NEW t \in Handlers, NEW c \in Channels, NEW key \in Keys, Connect(t, c, key)
      PROVE  CommandsHold' /\ ClonesHold'
  <2>1. /\ DOMAIN links' = DOMAIN links \cup {c} /\ links'[c].key = key
        /\ \A d \in DOMAIN links : d # c => links'[d] = links[d]
    BY <1>2 DEF Connect, ConnectedLink, Put
  <2>2. /\ KeyOf(links', c) = key
        /\ \A d \in Channels \ {c} : KeyOf(links', d) = KeyOf(links, d)
    BY <2>1 DEF KeyOf
  <2> QED
    BY <1>1, <1>2, <2>2 DEF Connect
<1>3. ASSUME NEW c \in Channels, Disconnect(c)
      PROVE  CommandsHold' /\ ClonesHold'
  <2>1. /\ DOMAIN links' = DOMAIN links \ {c}
        /\ \A d \in DOMAIN links' : links'[d] = links[d]
    BY <1>3, WithoutEntries DEF Disconnect
  <2>2. /\ KeyOf(links', c) = NoKey
        /\ \A d \in Channels \ {c} : KeyOf(links', d) = KeyOf(links, d)
    BY <2>1 DEF KeyOf
  <2> QED
    BY <1>1, <1>3, <2>2 DEF Disconnect
<1>4. ASSUME NEW t \in Tasks, clone[t] = NoLink,
             \A u \in Tasks : u # t => message'[u] = message[u],
             UNCHANGED <<up, links, clone, wanted, crossed>>
      PROVE  CommandsHold' /\ ClonesHold'
  BY <1>4 DEF CommandsHold, ClonesHold
<1>5. ASSUME NEW t \in Handlers, NEW c \in Channels, Post(t, c)
      PROVE  CommandsHold' /\ ClonesHold'
  <2>1. t \in Tasks /\ clone[t] = NoLink
    BY <1>5 DEF Post, Places, Tasks
  <2>2. \A u \in Tasks : u # t => message'[u] = message[u]
    BY <1>5 DEF Post, TypeOK
  <2> QED
    BY <1>4, <1>5, <2>1, <2>2 DEF Post, state, history
<1>6. ASSUME NEW t \in Handlers, Push(t)
      PROVE  CommandsHold' /\ ClonesHold'
  <2>1. t \in Tasks /\ clone[t] = NoLink
    BY <1>6 DEF Push, Places, Tasks
  <2>2. \A u \in Tasks : u # t => message'[u] = message[u]
    BY <1>6 DEF Push, TypeOK
  <2> QED
    BY <1>4, <1>6, <2>1, <2>2 DEF Push, state, history
<1>7. ASSUME NEW t \in Tasks, NEW c \in DOMAIN links, up,
             clone' = [clone EXCEPT ![t] = LinkOf(c)], message'[t].channel = c,
             \A u \in Tasks : u # t => message'[u] = message[u],
             UNCHANGED <<up, links, wanted, crossed>>
      PROVE  CommandsHold' /\ ClonesHold'
  <2>1. c \notin crossed => links[c].key = wanted[c]
    BY <1>7, LinksType DEF CommandsHold, KeyOf, TypeOK
  <2> QED
    BY <1>7, <2>1 DEF CommandsHold, ClonesHold, LinkOf, TypeOK
<1>8. ASSUME NEW t \in Handlers, PushFails(t)
      PROVE  CommandsHold' /\ ClonesHold'
  <2>1. t \in Tasks /\ clone[t] = NoLink /\ up
    BY <1>8 DEF PushFails, Places, Tasks, Idle
  <2>2. \A u \in Tasks : u # t => message'[u] = message[u]
    BY <1>8 DEF PushFails, TypeOK
  <2> QED
    BY <1>4, <1>7, <1>8, <2>1, <2>2 DEF PushFails, state, history
<1>9. ASSUME NEW t \in Tasks, at[t] \in {"flag", "call"}, NEW failed \in BOOLEAN,
             WriteBack(t, failed)
      PROVE  CommandsHold' /\ ClonesHold'
  <2> DEFINE c == message[t].channel
  <2>1. /\ clone[t] # NoLink
        /\ links' = Put(links, c, [key |-> clone[t].key, failed |-> failed])
    BY <1>9, WriteBackType
  <2>2. /\ DOMAIN links' = DOMAIN links \cup {c} /\ links'[c].key = clone[t].key
        /\ \A d \in DOMAIN links : d # c => links'[d] = links[d]
    BY <2>1 DEF Put
  <2>3. c \notin crossed => clone[t].key = wanted[c]
    BY <2>1 DEF ClonesHold
  <2>4. \A d \in Channels : KeyOf(links', d) = IF d = c THEN clone[t].key ELSE KeyOf(links, d)
    BY <2>2 DEF KeyOf
  <2>5. UNCHANGED <<up, wanted, crossed>>
    BY <1>9 DEF WriteBack
  <2>6. CommandsHold'
    BY <2>3, <2>4, <2>5 DEF CommandsHold
  <2>7. \A u \in Tasks : clone'[u] # NoLink => message'[u] = message[u] /\ clone'[u] = clone[u]
    BY <1>9 DEF WriteBack, TypeOK
  <2>8. ClonesHold'
    BY <2>5, <2>7 DEF ClonesHold
  <2> QED
    BY <2>6, <2>8
<1>10. ASSUME Receive
       PROVE  CommandsHold' /\ ClonesHold'
  <2>1. CASE UNCHANGED <<message, clone, at>>
    BY <1>10, <2>1 DEF Receive, CommandsHold, ClonesHold, state, history
  <2>2. ASSUME Received.next.channel \in DOMAIN links,
               message' = [message EXCEPT ![Relay] = Received.next],
               clone' = [clone EXCEPT ![Relay] = LinkOf(Received.next.channel)]
        PROVE  CommandsHold' /\ ClonesHold'
    BY <1>7, <1>10, <2>2 DEF Receive, TypeOK, Tasks, state, history
  <2> QED
    BY <1>10, <2>1, <2>2 DEF Receive
<1>11. ASSUME NEW t \in Tasks, Save(t)
       PROVE  CommandsHold' /\ ClonesHold'
  <2>1. UNCHANGED <<up, links, message, clone, wanted, crossed>>
    BY <1>11 DEF Save, TakeSnapshot, Truncate, Write, SaveFails, EndSave, history
  <2> QED
    BY <2>1 DEF CommandsHold, ClonesHold
<1>12. ASSUME Crash
       PROVE  CommandsHold' /\ ClonesHold'
  BY <1>12 DEF Crash, CommandsHold, ClonesHold, NoLinks
<1>13. ASSUME Restart
       PROVE  CommandsHold' /\ ClonesHold'
  <2>1. \A t \in Tasks : clone'[t] = NoLink
    BY <1>13 DEF Restart, Places, Idle
  <2>2. \A c \in Channels \ crossed' : KeyOf(links', c) = wanted'[c]
    BY <1>13 DEF Restart
  <2> QED
    BY <2>1, <2>2 DEF CommandsHold, ClonesHold
<1>14. CASE UNCHANGED vars
  BY <1>14 DEF CommandsHold, ClonesHold, vars, state, history
<1>15. ASSUME NEW t \in Handlers, EventTask(t)
       PROVE  CommandsHold' /\ ClonesHold'
  BY <1>6, <1>8, <1>9, <1>11, <1>15 DEF EventTask, Flag, Tasks
<1>16. ASSUME RelayTask
       PROVE  CommandsHold' /\ ClonesHold'
  BY <1>9, <1>10, <1>11, <1>16 DEF RelayTask, Answer, Tasks
<1> QED
  BY <1>2, <1>3, <1>5, <1>12, <1>13, <1>14, <1>15, <1>16 DEF Next

-----------------------------------------------------------------------------
(* The invariant *)

(* IInv holds in every reachable state. *)
THEOREM InvariantCorrect == Spec => []IInv
<1>1. Init => IInv
  <2>1. Init => OnlyGivenKeys /\ SnapshotsGiven /\ CommandsHold /\ ClonesHold
    BY DEF Init, OnlyGivenKeys, SnapshotsGiven, CommandsHold, ClonesHold, KeyOf,
           EmptyMap, NoLinks, NoSnapshots
  <2> QED
    BY <2>1, TypeInit DEF IInv
<1>2. IInv /\ [Next]_vars => IInv'
  BY TypeStep, GivenStep, HoldStep DEF IInv
<1> QED
  BY <1>1, <1>2, PTL DEF Spec

(* A message is relayed, and a link kept, only with a key that /connect was *)
(* given in that channel.                                                  *)
THEOREM KeysCorrect == Spec => []OnlyGivenKeys
BY InvariantCorrect, PTL DEF IInv

(* Crossing a task that holds the link, and a restart, are the only ways in *)
(* which a command fails to hold.                                          *)
THEOREM CommandsCorrect == Spec => []CommandsHold
BY InvariantCorrect, PTL DEF IInv
-----------------------------------------------------------------------------
(* The message pipe *)

(* A message that waits for room in the channel is neither in it already   *)
(* nor with another task: what makes the pipe accept it as a new one.      *)
(* Messages are numbered as they come, so that it is their ids that differ *)
(* and the next id is not in use.                                          *)
NewToPipe ==
    /\ \A i \in 1..Len(queue) : queue[i].id <= posts
    /\ \A t \in Tasks : at[t] \in {"push", "call"} => message[t].id <= posts
    /\ \A t \in Handlers : at[t] = "push" =>
        /\ \A i \in 1..Len(queue) : queue[i].id # message[t].id
        /\ \A u \in Tasks \ {t} : at[u] \in {"push", "call"} => message[u].id # message[t].id

(* Nothing is left in the channel when its receiver is gone. *)
LostWhenClosed == ~up \/ at[Relay] = "dead" => queue = <<>>

(* The inductive invariant behind the message pipe *)
PipeInv == NewToPipe /\ LostWhenClosed

(* What the messages in the channel have, those behind the first have. *)
LEMMA ReceivedEntries ==
    ASSUME TypeOK, queue # <<>>
    PROVE  /\ 1 \in 1..Len(queue) /\ Received.next = queue[1]
           /\ \A i \in 1..Len(Received.rest) :
                i + 1 \in 1..Len(queue) /\ Received.rest[i] = queue[i + 1]
           /\ queue = <<Received.next>> \o Received.rest
<1>1. queue \in Seq(Messages) /\ Len(queue) \in Nat
  BY DEF TypeOK
<1>2. 1 \in 1..Len(queue) /\ Received.next = queue[1]
  BY <1>1 DEF Received
<1>3. \A i \in 1..Len(Received.rest) : i + 1 \in 1..Len(queue) /\ Received.rest[i] = queue[i + 1]
  BY <1>1 DEF Received
<1>4. queue = <<Received.next>> \o Received.rest
  BY <1>1 DEF Received
<1> QED
  BY <1>2, <1>3, <1>4

(* The messages in the channel are messages, numbered. *)
LEMMA QueuedIds ==
    ASSUME TypeOK
    PROVE  \A i \in 1..Len(queue) : queue[i] \in Messages /\ queue[i].id \in Nat
<1>1. queue \in Seq(Messages)
  BY DEF TypeOK
<1>2. \A i \in 1..Len(queue) : queue[i] \in Messages
  BY <1>1
<1> QED
  BY <1>2 DEF Messages

(* The pipe takes the messages of the bot one by one: every step keeps     *)
(* those that wait new to it.                                              *)
LEMMA PipeInvStep == TypeOK /\ Places /\ PipeInv /\ [Next]_vars => PipeInv'
<1> SUFFICES ASSUME TypeOK, Places, PipeInv, [Next]_vars
             PROVE  PipeInv'
  OBVIOUS
<1> USE DiscordRelayAssumption
<1>1. ASSUME UNCHANGED <<up, queue, posts>>,
             at'[Relay] = "dead" => queue = <<>>,
             \A t \in Tasks : at'[t] \in {"push", "call"} => at'[t] = at[t] /\ message'[t] = message[t]
      PROVE  PipeInv'
  BY <1>1 DEF PipeInv, NewToPipe, LostWhenClosed, Tasks
<1>2. ASSUME NEW t \in Handlers, NEW c \in Channels, NEW key \in Keys, Connect(t, c, key)
      PROVE  PipeInv'
  <2>1. at'[Relay] = at[Relay]
    BY <1>2 DEF Connect, Goto, TypeOK, Tasks
  <2> QED
    BY <1>1, <1>2, <2>1 DEF Connect, Commanded, Goto, TypeOK, Tasks, PipeInv, LostWhenClosed
<1>3. ASSUME NEW c \in Channels, Disconnect(c)
      PROVE  PipeInv'
  BY <1>1, <1>3 DEF Disconnect, Commanded, PipeInv, LostWhenClosed
<1>4. ASSUME NEW t \in Handlers, NEW c \in Channels, Post(t, c)
      PROVE  PipeInv'
  <2>1. /\ posts \in Nat /\ posts' = posts + 1
        /\ UNCHANGED <<up, queue>>
        /\ at'[t] = "push" /\ message'[t].id = posts + 1
        /\ \A u \in Tasks : u # t => at'[u] = at[u] /\ message'[u] = message[u]
        /\ t \in Tasks /\ Relay \in Tasks /\ t # Relay
    BY <1>4 DEF Post, Goto, TypeOK, Tasks
  <2>2. \A i \in 1..Len(queue) : queue[i].id \in Nat
    BY QueuedIds
  <2>3. \A u \in Tasks : at[u] \in {"push", "call"} => message[u].id \in Nat
    BY DEF Places, Messages
  <2>4. /\ \A i \in 1..Len(queue) : queue[i].id # posts + 1 /\ queue[i].id <= posts + 1
        /\ \A u \in Tasks : at[u] \in {"push", "call"} =>
                message[u].id # posts + 1 /\ message[u].id <= posts + 1
    BY <2>1, <2>2, <2>3 DEF PipeInv, NewToPipe
  <2>5. NewToPipe'
    BY <2>1, <2>4 DEF PipeInv, NewToPipe, Tasks
  <2>6. LostWhenClosed'
    BY <2>1 DEF PipeInv, LostWhenClosed
  <2> QED
    BY <2>5, <2>6 DEF PipeInv
<1>5. ASSUME NEW t \in Handlers, Push(t)
      PROVE  PipeInv'
  <2>1. /\ UNCHANGED <<up, posts>>
        /\ at[t] = "push" /\ at'[t] = "idle" /\ message[t] \in Messages
        /\ \A u \in Tasks : u # t => at'[u] = at[u] /\ message'[u] = message[u]
        /\ t \in Tasks /\ Relay \in Tasks /\ t # Relay /\ at[Relay] # "dead" /\ up
    BY <1>5 DEF Push, Goto, TypeOK, Tasks, Places, Idle, bounds
  <2>2. queue' = Append(queue, message[t]) /\ queue \in Seq(Messages)
    BY <1>5 DEF Push, TypeOK
  <2>3. \A i \in 1..Len(queue') :
            queue'[i] = message[t] \/ (i \in 1..Len(queue) /\ queue'[i] = queue[i])
    BY <2>2
  <2>4. \A i \in 1..Len(queue') : queue'[i].id <= posts'
    BY <2>1, <2>3 DEF PipeInv, NewToPipe
  <2>5. \A u \in Tasks : at'[u] \in {"push", "call"} =>
            u # t /\ at[u] = at'[u] /\ message'[u] = message[u]
    BY <2>1
  <2>6. ASSUME NEW u \in Handlers, at'[u] = "push"
        PROVE  \A i \in 1..Len(queue') : queue'[i].id # message'[u].id
    <3>1. u \in Tasks /\ u # t /\ at[u] = "push" /\ message'[u] = message[u]
      BY <2>5, <2>6 DEF Tasks
    <3>2. message[t].id # message[u].id
      BY <2>1, <2>6, <3>1 DEF PipeInv, NewToPipe
    <3> QED
      BY <2>3, <2>6, <3>1, <3>2 DEF PipeInv, NewToPipe
  <2>7. ASSUME NEW u \in Handlers, at'[u] = "push",
               NEW v \in Tasks \ {u}, at'[v] \in {"push", "call"}
        PROVE  message'[v].id # message'[u].id
    BY <2>5, <2>7 DEF PipeInv, NewToPipe, Tasks
  <2>8. NewToPipe'
    BY <2>1, <2>4, <2>5, <2>6, <2>7 DEF PipeInv, NewToPipe
  <2> QED
    BY <2>1, <2>8 DEF PipeInv, LostWhenClosed
<1>6. ASSUME NEW t \in Handlers, PushFails(t)
      PROVE  PipeInv'
  BY <1>1, <1>6 DEF PushFails, Goto, TypeOK, Tasks, state, bounds, PipeInv, LostWhenClosed
<1>7. ASSUME NEW t \in Tasks, at[t] \in {"flag", "call"}, NEW failed \in BOOLEAN, WriteBack(t, failed)
      PROVE  PipeInv'
  BY <1>1, <1>7 DEF WriteBack, Goto, TypeOK, Tasks, bounds, PipeInv, LostWhenClosed
<1>8. ASSUME Receive
      PROVE  PipeInv'
  <2>1. /\ UNCHANGED <<up, posts>> /\ up /\ at[Relay] = "idle"
        /\ queue' = Received.rest /\ Relay \in Tasks
        /\ \A u \in Handlers : at'[u] = at[u] /\ message'[u] = message[u]
        /\ at'[Relay] = "idle" \/ (at'[Relay] = "call" /\ message'[Relay] = Received.next)
    BY <1>8 DEF Receive, Goto, TypeOK, Tasks, state, bounds
  <2>2. /\ 1 \in 1..Len(queue) /\ Received.next = queue[1]
        /\ \A i \in 1..Len(queue') : i + 1 \in 1..Len(queue) /\ queue'[i] = queue[i + 1]
    <3>1. queue # <<>>
      BY <1>8 DEF Receive
    <3> QED
      BY <2>1, <3>1, ReceivedEntries
  <2>3. \A i \in 1..Len(queue') : queue'[i].id <= posts'
    BY <2>1, <2>2 DEF PipeInv, NewToPipe
  <2>4. \A u \in Tasks : at'[u] \in {"push", "call"} => message'[u].id <= posts'
    BY <2>1, <2>2 DEF PipeInv, NewToPipe, Tasks
  <2>5. ASSUME NEW u \in Handlers, at'[u] = "push"
        PROVE  /\ \A i \in 1..Len(queue') : queue'[i].id # message'[u].id
               /\ \A v \in Tasks \ {u} :
                    at'[v] \in {"push", "call"} => message'[v].id # message'[u].id
    <3>1. at[u] = "push" /\ message'[u] = message[u] /\ u \in Tasks
      BY <2>1, <2>5 DEF Tasks
    <3>2. \A i \in 1..Len(queue') : queue'[i].id # message'[u].id
      BY <2>2, <2>5, <3>1 DEF PipeInv, NewToPipe
    <3>3. ASSUME NEW v \in Tasks \ {u}, at'[v] \in {"push", "call"}
          PROVE  message'[v].id # message'[u].id
      <4>1. CASE v = Relay
        BY <2>1, <2>2, <2>5, <3>1, <3>3, <4>1 DEF PipeInv, NewToPipe
      <4>2. CASE v \in Handlers
        BY <2>1, <2>5, <3>1, <3>3, <4>2 DEF PipeInv, NewToPipe
      <4> QED
        BY <4>1, <4>2 DEF Tasks
    <3> QED
      BY <3>2, <3>3
  <2>6. NewToPipe'
    BY <2>3, <2>4, <2>5 DEF NewToPipe
  <2> QED
    BY <2>1, <2>6 DEF PipeInv, LostWhenClosed
<1>9. ASSUME NEW t \in Tasks, Save(t)
      PROVE  PipeInv'
  <2>1. /\ UNCHANGED <<up, posts, message>>
        /\ \A u \in Tasks : at'[u] \in {"push", "call"} => at'[u] = at[u]
        /\ Relay \in Tasks
    BY <1>9 DEF Save, TakeSnapshot, Truncate, Write, SaveFails, EndSave, Goto, TypeOK, Tasks, bounds
  <2>2. (queue' = queue /\ (at'[Relay] = "dead" => at[Relay] = "dead")) \/ queue' = <<>>
    BY <1>9 DEF Save, TakeSnapshot, Truncate, Write, SaveFails, EndSave, Goto, TypeOK, Tasks
  <2>3. CASE queue' = <<>>
    BY <2>1, <2>3 DEF PipeInv, NewToPipe, LostWhenClosed, Tasks
  <2> QED
    BY <1>1, <2>1, <2>2, <2>3 DEF PipeInv, LostWhenClosed
<1>10. ASSUME Crash
       PROVE  PipeInv'
  BY <1>10 DEF Crash, Idle, PipeInv, NewToPipe, LostWhenClosed, Tasks
<1>11. ASSUME Restart
       PROVE  PipeInv'
  <2>1. at = Idle /\ queue = <<>> /\ UNCHANGED <<at, queue, message>>
    BY <1>11 DEF Restart, Places, PipeInv, LostWhenClosed
  <2> QED
    BY <2>1 DEF PipeInv, NewToPipe, LostWhenClosed, Idle, Tasks
<1>12. CASE UNCHANGED vars
  BY <1>12 DEF vars, state, bounds, PipeInv, NewToPipe, LostWhenClosed
<1>13. ASSUME NEW t \in Handlers, EventTask(t)
       PROVE  PipeInv'
  BY <1>5, <1>6, <1>7, <1>9, <1>13 DEF EventTask, Flag, Tasks
<1>14. ASSUME RelayTask
       PROVE  PipeInv'
  BY <1>7, <1>8, <1>9, <1>14 DEF RelayTask, Answer, Tasks
<1> QED
  BY <1>2, <1>3, <1>4, <1>10, <1>11, <1>12, <1>13, <1>14 DEF Next

(* The bot starts with an open and empty pipe. *)
LEMMA PipeInit == Init => PipeInv /\ Pipe!Init
<1> SUFFICES ASSUME Init
             PROVE  PipeInv /\ Pipe!Init
  OBVIOUS
<1>1. up = TRUE /\ queue = <<>> /\ at = [t \in Tasks |-> "idle"] /\ Relay \in Tasks
  BY DEF Init, Idle, Tasks
<1>2. PipeInv
  BY <1>1 DEF PipeInv, NewToPipe, LostWhenClosed, Tasks
<1>3. Pipe!Init
  BY <1>1 DEF Pipe!Init
<1> QED
  BY <1>2, <1>3

(* A step that leaves the relay task and the channel alone is not seen.    *)
LEMMA PipeStutters ==
    ASSUME UNCHANGED <<up, queue>>,
           UNCHANGED <<at[Relay], message[Relay]>>
           \/ {at[Relay], at'[Relay]} \subseteq {"idle", "save", "open", "write"}
    PROVE  UNCHANGED Pipe!vars
BY DEF Pipe!vars

(* What the messages of the channel are to the pipe *)
LEMMA PendingType ==
    ASSUME TypeOK, Places
    PROVE  /\ at[Relay] = "call" => message[Relay] \in Messages
           /\ queue \in Seq(Messages)
           /\ Relay \in Tasks
BY DEF TypeOK, Places, Tasks

(* A message that enters the channel is accepted. *)
LEMMA PushAccepts ==
    ASSUME TypeOK, Places, PipeInv, NEW t \in Handlers, Push(t)
    PROVE  Pipe!Next
<1> USE DiscordRelayAssumption
<1> DEFINE pending == IF at[Relay] = "call" THEN <<message[Relay]>> \o queue ELSE queue
<1>1. /\ UNCHANGED up /\ queue' = Append(queue, message[t])
      /\ UNCHANGED <<at[Relay], message[Relay]>>
      /\ at[t] = "push" /\ message[t] \in Messages
      /\ t \in Tasks /\ t # Relay /\ at[Relay] # "dead" /\ up
      /\ Len(queue) < QueueSize
  BY DEF Push, HasRoom, Goto, TypeOK, Tasks, Places, Idle
<1>2. /\ at[Relay] = "call" => message[Relay] \in Messages
      /\ queue \in Seq(Messages)
      /\ Relay \in Tasks
  BY PendingType
<1>3. /\ pending \in Seq(Messages)
      /\ Len(pending) <= Len(queue) + 1
      /\ pending' = Append(pending, message[t])
  <2>1. CASE at[Relay] = "call"
    <3>1. /\ pending = <<message[Relay]>> \o queue
          /\ pending' = <<message[Relay]>> \o Append(queue, message[t])
      BY <1>1, <2>1
    <3>2. <<message[Relay]>> \in Seq(Messages)
      BY <1>2, <2>1
    <3> QED
      BY <1>1, <1>2, <3>1, <3>2
  <2>2. CASE at[Relay] # "call"
    BY <1>1, <1>2, <2>2
  <2> QED
    BY <2>1, <2>2
<1>4. ASSUME NEW i \in 1..Len(pending)
      PROVE  pending[i] # message[t]
  <2>1. \A j \in 1..Len(queue) : queue[j] # message[t]
    BY <1>1 DEF PipeInv, NewToPipe
  <2>2. at[Relay] = "call" => message[Relay] # message[t]
    BY <1>1, <1>2 DEF PipeInv, NewToPipe
  <2>3. CASE at[Relay] = "call"
    <3>1. pending[i] = message[Relay] \/ \E j \in 1..Len(queue) : pending[i] = queue[j]
      BY <1>2, <2>3
    <3> QED
      BY <2>1, <2>2, <2>3, <3>1
  <2>4. CASE at[Relay] # "call"
    BY <2>1, <2>4
  <2> QED
    BY <2>3, <2>4
<1>5. Len(pending) < QueueSize + 1
  BY <1>1, <1>2, <1>3
<1>6. Pipe!Accept(message[t])
  BY <1>1, <1>3, <1>4, <1>5 DEF Pipe!Accept
<1> QED
  BY <1>1, <1>6 DEF Pipe!Next

(* A message that is received is still pending if its channel is linked,   *)
(* and settled if it is dropped.                                           *)
LEMMA ReceiveSettles ==
    ASSUME TypeOK, Places, Receive
    PROVE  Pipe!Next \/ UNCHANGED Pipe!vars
<1>1. queue # <<>> /\ up /\ UNCHANGED up /\ at[Relay] = "idle"
      /\ queue' = Received.rest /\ queue' = Tail(queue)
  BY DEF Receive, Received
<1>2. queue = <<Received.next>> \o Received.rest
  BY <1>1, ReceivedEntries
<1>3. CASE message' = [message EXCEPT ![Relay] = Received.next] /\ Goto(Relay, "call")
  <2>1. at'[Relay] = "call" /\ message'[Relay] = Received.next
    BY <1>3 DEF Goto, TypeOK, Tasks
  <2> QED
    BY <1>1, <1>2, <2>1 DEF Pipe!vars
<1>4. CASE UNCHANGED at
  <2>1. Pipe!Settle
    BY <1>1, <1>4 DEF Pipe!Settle
  <2> QED
    BY <2>1 DEF Pipe!Next
<1> QED
  BY <1>3, <1>4 DEF Receive

(* The message is settled when the call to OpenChat has ended, whatever the *)
(* answer.                                                                 *)
LEMMA AnswerSettles ==
    ASSUME TypeOK, Places, Answer
    PROVE  Pipe!Next
<1>1. /\ at[Relay] = "call" /\ at'[Relay] = "save"
      /\ UNCHANGED <<up, queue>> /\ up
  BY DEF Answer, WriteBack, Goto, Places, Idle, TypeOK, Tasks
<1>2. message[Relay] \in Messages /\ queue \in Seq(Messages)
  BY <1>1, PendingType
<1>3. queue = Tail(<<message[Relay]>> \o queue) /\ <<message[Relay]>> \o queue # <<>>
  BY <1>2
<1>4. Pipe!Settle
  BY <1>1, <1>3 DEF Pipe!Settle
<1> QED
  BY <1>4 DEF Pipe!Next

(* The relay task that fails to save closes the pipe; no other save is     *)
(* seen.                                                                   *)
LEMMA SaveCloses ==
    ASSUME TypeOK, Places, NEW t \in Tasks, Save(t)
    PROVE  Pipe!Next \/ UNCHANGED Pipe!vars
<1> USE DiscordRelayAssumption
<1>1. UNCHANGED <<up, message>> /\ up /\ Relay \in Tasks
      /\ at[t] \in {"save", "open", "write"} /\ at'[t] \in {"open", "write", "idle", "dead"}
      /\ \A u \in Tasks \ {t} : at'[u] = at[u]
  BY DEF Save, TakeSnapshot, Truncate, Write, SaveFails, EndSave, Goto, TypeOK, Tasks, Places, Idle
<1>2. at'[t] = "dead" => t = Relay /\ queue' = <<>>
  BY DEF Save, TakeSnapshot, Truncate, Write, SaveFails, EndSave, Goto, TypeOK
<1>3. CASE t = Relay /\ at'[t] = "dead"
  <2>1. Pipe!Close
    BY <1>1, <1>2, <1>3 DEF Pipe!Close
  <2> QED
    BY <2>1 DEF Pipe!Next
<1>4. CASE ~(t = Relay /\ at'[t] = "dead")
  <2>1. UNCHANGED queue
    BY <1>4 DEF Save, TakeSnapshot, Truncate, Write, SaveFails, EndSave, Goto, TypeOK
  <2>2. UNCHANGED <<at[Relay], message[Relay]>>
        \/ {at[Relay], at'[Relay]} \subseteq {"idle", "save", "open", "write"}
    BY <1>1, <1>2, <1>4
  <2> QED
    BY <1>1, <2>1, <2>2, PipeStutters
<1> QED
  BY <1>3, <1>4

(* Every step of the bot is a step of the pipe, or none. *)
LEMMA PipeStep ==
    TypeOK /\ Places /\ PipeInv /\ [Next]_vars => Pipe!Next \/ UNCHANGED Pipe!vars
<1> SUFFICES ASSUME TypeOK, Places, PipeInv, [Next]_vars
             PROVE  Pipe!Next \/ UNCHANGED Pipe!vars
  OBVIOUS
<1> USE DiscordRelayAssumption
<1>1. ASSUME NEW t \in Handlers, UNCHANGED <<up, queue>>,
             \A u \in Tasks \ {t} : at'[u] = at[u] /\ message'[u] = message[u]
      PROVE  UNCHANGED Pipe!vars
  BY <1>1, PipeStutters DEF Tasks
<1>2. ASSUME NEW t \in Handlers, NEW c \in Channels, NEW key \in Keys, Connect(t, c, key)
      PROVE  UNCHANGED Pipe!vars
  BY <1>1, <1>2 DEF Connect, Goto, TypeOK
<1>3. ASSUME NEW c \in Channels, Disconnect(c)
      PROVE  UNCHANGED Pipe!vars
  BY <1>3, PipeStutters DEF Disconnect
<1>4. ASSUME NEW t \in Handlers, NEW c \in Channels, Post(t, c)
      PROVE  UNCHANGED Pipe!vars
  BY <1>1, <1>4 DEF Post, Goto, TypeOK
<1>5. ASSUME NEW t \in Handlers, PushFails(t) \/ Flag(t)
      PROVE  UNCHANGED Pipe!vars
  BY <1>1, <1>5 DEF PushFails, Flag, WriteBack, Goto, TypeOK
<1>6. ASSUME NEW t \in Handlers, EventTask(t)
      PROVE  Pipe!Next \/ UNCHANGED Pipe!vars
  BY <1>5, <1>6, PushAccepts, SaveCloses DEF EventTask, Tasks
<1>7. ASSUME RelayTask
      PROVE  Pipe!Next \/ UNCHANGED Pipe!vars
  BY <1>7, ReceiveSettles, AnswerSettles, SaveCloses DEF RelayTask, Tasks
<1>8. ASSUME Crash
      PROVE  Pipe!Next \/ UNCHANGED Pipe!vars
  <2>1. up /\ ~up' /\ queue' = <<>> /\ at'[Relay] = "idle"
    BY <1>8 DEF Crash, Idle, Tasks
  <2>2. CASE at[Relay] = "dead"
    BY <2>1, <2>2 DEF Pipe!vars, PipeInv, LostWhenClosed
  <2>3. CASE at[Relay] # "dead"
    <3>1. Pipe!Close
      BY <2>1, <2>3 DEF Pipe!Close
    <3> QED
      BY <3>1 DEF Pipe!Next
  <2> QED
    BY <2>2, <2>3
<1>9. ASSUME Restart
      PROVE  Pipe!Next
  <2>1. ~up /\ up' /\ UNCHANGED <<queue, at, message>> /\ at[Relay] = "idle"
    BY <1>9 DEF Restart, Places, Idle, Tasks
  <2>2. Pipe!Open
    BY <2>1 DEF Pipe!Open
  <2> QED
    BY <2>2 DEF Pipe!Next
<1>10. CASE UNCHANGED vars
  BY <1>10, PipeStutters DEF vars
<1> QED
  BY <1>2, <1>3, <1>4, <1>6, <1>7, <1>8, <1>9, <1>10 DEF Next

(* Messages are relayed in the order in which they entered the channel,    *)
(* each once, and are lost only when the bot crashes or its relay task     *)
(* ends.                                                                   *)
THEOREM PipeImplemented == Spec => ImplementsPipe
<1>1. PipeInv /\ TypeOK /\ Places /\ [Next]_vars => PipeInv' /\ [Pipe!Next]_(Pipe!vars)
  BY PipeInvStep, PipeStep
<1> QED
  BY TypeCorrect, PipeInit, <1>1, PTL DEF Spec, ImplementsPipe, Pipe!Spec
=============================================================================
