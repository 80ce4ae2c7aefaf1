-------------------------- MODULE ReminderBotProofs --------------------------
(***************************************************************************)
(* Type correctness of the reminder bot, the invariance of IInv and what   *)
(* follows of it, for every set of chats, communities and schedules and    *)
(* every limit: each of its parts, the limits on the number of reminders,  *)
(* what the job may take from the queue, and that the bot implements the   *)
(* reminder service.                                                       *)
(***************************************************************************)
EXTENDS ReminderRefinement, MapTheorems, FiniteSetTheorems

-----------------------------------------------------------------------------
(* Operators *)

(* The deadline of an occurrence is an instant, not before now. *)
LEMMA DeadlineType ==
    ASSUME NEW due \in Nat, now \in Nat
    PROVE  Deadline(due) \in Nat /\ Deadline(due) >= now /\ Deadline(due) >= due
BY DEF Deadline

(* start_job_if_required arms at most one more timer, for an instant. *)
LEMMA StartJobType ==
    ASSUME NEW tid \in Nat \cup {NoTimer}, NEW armed \in SUBSET Nat,
           NEW queue \in SUBSET Occurrences, now \in Nat,
           StartJobIfRequired(tid, armed, queue)
    PROVE  timerId' \in Nat \cup {NoTimer} /\ timers' \in SUBSET Nat
<1>1. CASE tid = NoTimer /\ queue # {}
  <2>1. PICK e \in queue : timerId' = Deadline(e.due)
                           /\ timers' = armed \cup {Deadline(e.due)}
    BY <1>1 DEF StartJobIfRequired
  <2>2. e.due \in Nat
    BY DEF Occurrences
  <2> QED
    BY <2>1, <2>2, DeadlineType
<1>2. CASE ~(tid = NoTimer /\ queue # {})
  BY <1>2 DEF StartJobIfRequired
<1> QED
  BY <1>1, <1>2

(* delete_from_chat keeps the index well typed. *)
LEMMA DeleteFromChatType ==
    ASSUME NEW Ids, NEW c, NEW i, DOMAIN perChat \subseteq Chats,
           \A d \in DOMAIN perChat : IsMap(perChat[d], ChatIds, Ids)
    PROVE  /\ DOMAIN DeleteFromChat(c, i) \subseteq Chats
           /\ \A d \in DOMAIN DeleteFromChat(c, i) :
                IsMap(DeleteFromChat(c, i)[d], ChatIds, Ids)
<1>1. CASE c \in DOMAIN perChat /\ i \in DOMAIN perChat[c]
  <2>1. IsMap(Without(perChat[c], i), ChatIds, Ids)
    BY <1>1, WithoutIsMap
  <2>2. CASE DOMAIN perChat[c] = {i}
    <3>1. DeleteFromChat(c, i) = Without(perChat, c)
      BY <1>1, <2>2 DEF DeleteFromChat
    <3> QED
      BY <3>1 DEF Without, Restrict
  <2>3. CASE DOMAIN perChat[c] # {i}
    <3>1. DeleteFromChat(c, i) = Put(perChat, c, Without(perChat[c], i))
      BY <1>1, <2>3 DEF DeleteFromChat
    <3> QED
      BY <1>1, <2>1, <3>1 DEF Put
  <2> QED
    BY <2>2, <2>3
<1>2. CASE ~(c \in DOMAIN perChat /\ i \in DOMAIN perChat[c])
  BY <1>2 DEF DeleteFromChat
<1> QED
  BY <1>1, <1>2

-----------------------------------------------------------------------------
(* Type correctness *)

(* The initial store is empty and no timer is armed. *)
LEMMA TypeInit == Init => TypeOK
<1> SUFFICES ASSUME Init
             PROVE  TypeOK
  OBVIOUS
<1>1. IsMap(reminders, 0..(nextId - 1), Reminder) /\ IsKeys(apiKeys)
  BY EmptyIsMap DEF Init, IsKeys
<1>2. DOMAIN perChat = {}
  BY DEF Init, EmptyMap
<1>3. nextId \in 0..MaxAdds /\ now \in 0..MaxTime
  BY ReminderBotAssumption DEF Init
<1>4. /\ ordered \subseteq Occurrences /\ inflight \subseteq Call
      /\ sent \subseteq Occurrences
      /\ timerId \in Nat \cup {NoTimer} /\ timers \subseteq Nat
      /\ running \in BOOLEAN
  BY DEF Init
<1> QED
  BY <1>1, <1>2, <1>3, <1>4 DEF TypeOK

(* A reminder that is added fits the store, whatever set it off. *)
LEMMA TypeAdd ==
    ASSUME TypeOK, NEW c \in Chats, NEW schedule \in Schedules \cup {{}},
           NEW due \in Nat, Add(c, schedule, due)
    PROVE  TypeOK'
<1> USE ReminderBotAssumption DEF TypeOK
<1> DEFINE entry == [due |-> due, id |-> nextId]
           queue == ordered \cup {entry}
<1>1. PICK i \in ChatIds :
        /\ perChat' = Put(perChat, c, Put(ChatMap(c), i, nextId))
        /\ reminders' = Put(reminders, nextId,
                            [chat |-> c, chatId |-> i, schedule |-> schedule])
  BY DEF Add
<1>2. nextId' = nextId + 1 /\ nextId' \in 0..MaxAdds /\ nextId \in 0..(nextId' - 1)
      /\ 0..(nextId - 1) \subseteq 0..(nextId' - 1)
  BY DEF Add
<1>3. IsMap(reminders, 0..(nextId' - 1), Reminder)
  BY <1>2, IsMapWidens
<1>4. IsMap(reminders', 0..(nextId' - 1), Reminder)
  <2>1. [chat |-> c, chatId |-> i, schedule |-> schedule] \in Reminder
    BY DEF Reminder
  <2> QED
    BY <1>1, <1>2, <1>3, <2>1, PutIsMap
<1>5. \A d \in DOMAIN perChat : IsMap(perChat[d], ChatIds, 0..(nextId' - 1))
  BY <1>2, IsMapWidens
<1>6. IsMap(ChatMap(c), ChatIds, 0..(nextId' - 1))
  BY <1>5, EmptyIsMap DEF ChatMap
<1>7. IsMap(Put(ChatMap(c), i, nextId), ChatIds, 0..(nextId' - 1))
  BY <1>2, <1>6, PutIsMap
<1>8. /\ DOMAIN perChat' \subseteq Chats
      /\ \A d \in DOMAIN perChat' : IsMap(perChat'[d], ChatIds, 0..(nextId' - 1))
  BY <1>1, <1>5, <1>7 DEF Put
<1>9. queue \in SUBSET Occurrences /\ ordered' = queue
  <2>1. entry \in Occurrences
    BY DEF Occurrences
  <2>2. ordered' = queue
    BY DEF Add
  <2> QED
    BY <2>1, <2>2
<1>10. timerId' \in Nat \cup {NoTimer} /\ timers' \in SUBSET Nat
  <2>1. \/ StartJobIfRequired(NoTimer, timers \ {timerId}, queue)
        \/ StartJobIfRequired(timerId, timers, queue)
    BY DEF Add, RestartJob
  <2>2. /\ timerId \in Nat \cup {NoTimer} /\ timers \in SUBSET Nat /\ now \in Nat
        /\ timers \ {timerId} \in SUBSET Nat
    OBVIOUS
  <2>3. queue \in SUBSET Occurrences
    BY <1>9
  <2> HIDE DEF queue
  <2> QED
    BY <2>1, <2>2, <2>3, StartJobType
<1> QED
  BY <1>2, <1>4, <1>8, <1>9, <1>10 DEF Add

(* Deleting a reminder keeps the store well typed. *)
LEMMA TypeDeleteReminder ==
    ASSUME TypeOK, NEW c, NEW i, DeleteReminder(c, i)
    PROVE  /\ IsMap(reminders', 0..(nextId' - 1), Reminder)
           /\ DOMAIN perChat' \subseteq Chats
           /\ \A d \in DOMAIN perChat' : IsMap(perChat'[d], ChatIds, 0..(nextId' - 1))
           /\ ordered' \subseteq Occurrences
           /\ nextId' \in 0..MaxAdds
BY WithoutIsMap, DeleteFromChatType DEF TypeOK, DeleteReminder

(* Every step of the bot keeps the variables well typed. *)
LEMMA TypeStep == TypeOK /\ [Next]_vars => TypeOK'
<1> SUFFICES ASSUME TypeOK, [Next]_vars
             PROVE  TypeOK'
  OBVIOUS
<1> USE ReminderBotAssumption
<1> USE DEF store, job, vars
<1>1. ASSUME NEW c \in Chats, NEW due \in 0..MaxTime, RemindAt(c, due)
      PROVE  TypeOK'
  BY <1>1, TypeAdd DEF RemindAt
<1>2. ASSUME NEW c \in Chats, NEW schedule \in Schedules, RemindRecurring(c, schedule)
      PROVE  TypeOK'
  <2>1. PICK first \in schedule : Add(c, schedule, first)
    BY <1>2 DEF RemindRecurring
  <2>2. first \in Nat
    BY <2>1
  <2> QED
    BY <2>1, <2>2, TypeAdd
<1>3. ASSUME NEW c \in Chats, RejectRecurring(c)
      PROVE  TypeOK'
  <2>1. /\ DOMAIN perChat' \subseteq Chats
        /\ \A d \in DOMAIN perChat' : IsMap(perChat'[d], ChatIds, 0..(nextId - 1))
    <3>1. IsMap(EmptyMap, ChatIds, 0..(nextId - 1))
      BY EmptyIsMap
    <3> QED
      BY <1>3, <3>1 DEF RejectRecurring, TypeOK, Put
  <2> QED
    BY <1>3, <2>1 DEF RejectRecurring, TypeOK
<1>4. ASSUME NEW c \in Chats, NEW i \in ChatIds, Delete(c, i)
      PROVE  TypeOK'
  BY <1>4, TypeDeleteReminder DEF Delete, TypeOK
<1>5. ASSUME NEW scope \in Scopes, NEW granted \in SUBSET Permissions,
             SyncApiKey(scope, granted)
      PROVE  TypeOK'
  BY <1>5, PutIsMap DEF SyncApiKey, TypeOK, IsKeys
<1>6. CASE RunStart
  BY <1>6 DEF RunStart, TypeOK
<1>7. CASE RunPop
  <2>1. PICK e \in ordered :
          /\ e.id \in DOMAIN reminders
          /\ PopRecurring(e) \/ PopLast(e)
          /\ Send(reminders[e.id], e)
    BY <1>7 DEF RunPop
  <2>2. e \in Occurrences /\ reminders[e.id] \in Reminder
    BY <2>1 DEF TypeOK, IsMap
  <2>3. inflight' \subseteq Call /\ sent' \subseteq Occurrences
    BY <2>1, <2>2 DEF Send, TypeOK, Call, Reminder
  <2>4. CASE PopRecurring(e)
    <3>1. PICK next \in reminders[e.id].schedule :
            ordered' = (ordered \ {e}) \cup {[due |-> next, id |-> e.id]}
      BY <2>4 DEF PopRecurring
    <3>2. next \in Nat
      BY <2>2, <3>1 DEF Reminder
    <3>3. ordered' \subseteq Occurrences
      BY <2>2, <3>1, <3>2 DEF TypeOK, Occurrences
    <3> QED
      BY <1>7, <2>3, <2>4, <3>3 DEF RunPop, PopRecurring, TypeOK
  <2>5. CASE PopLast(e)
    <3>1. IsMap(reminders', 0..(nextId - 1), Reminder)
      BY <2>5, WithoutIsMap DEF PopLast, TypeOK
    <3>2. /\ DOMAIN perChat' \subseteq Chats
          /\ \A d \in DOMAIN perChat' : IsMap(perChat'[d], ChatIds, 0..(nextId - 1))
      BY <2>5, DeleteFromChatType DEF PopLast, TypeOK
    <3> QED
      BY <1>7, <2>3, <2>5, <3>1, <3>2 DEF RunPop, PopLast, TypeOK
  <2> QED
    BY <2>1, <2>4, <2>5
<1>8. CASE RunEnd
  <2>1. ordered' \in SUBSET Occurrences
    BY <1>8 DEF RunEnd, TypeOK
  <2>2. timerId' \in Nat \cup {NoTimer} /\ timers' \in SUBSET Nat
    <3>1. StartJobIfRequired(timerId, timers, ordered')
      BY <1>8 DEF RunEnd
    <3>2. timerId \in Nat \cup {NoTimer} /\ timers \in SUBSET Nat /\ now \in Nat
      BY DEF TypeOK
    <3> QED
      BY <2>1, <3>1, <3>2, StartJobType
  <2> QED
    BY <1>8, <2>1, <2>2 DEF RunEnd, TypeOK
<1>9. ASSUME NEW m \in inflight, ReplyIgnored(m)
      PROVE  TypeOK'
  BY <1>9 DEF ReplyIgnored, TypeOK
<1>10. ASSUME NEW m \in inflight, ReplyRefused(m)
       PROVE  TypeOK'
  <2>1. CASE DeleteReminder(m.chat, m.chatId)
    BY <1>10, <2>1, TypeDeleteReminder DEF ReplyRefused, TypeOK
  <2>2. CASE UNCHANGED store
    BY <1>10, <2>2 DEF ReplyRefused, TypeOK
  <2> QED
    BY <1>10, <2>1, <2>2 DEF ReplyRefused
<1>11. CASE Upgrade
  <2>1. timerId' \in Nat \cup {NoTimer} /\ timers' \in SUBSET Nat
    <3>1. StartJobIfRequired(NoTimer, {}, ordered)
      BY <1>11 DEF Upgrade
    <3>2. ordered \in SUBSET Occurrences /\ now \in Nat
      BY DEF TypeOK
    <3> QED
      BY <3>1, <3>2, StartJobType
  <2> QED
    BY <1>11, <2>1 DEF Upgrade, TypeOK
<1>12. CASE Tick
  BY <1>12 DEF Tick, TypeOK
<1>13. CASE UNCHANGED vars
  BY <1>13 DEF TypeOK
<1> QED
  BY <1>1, <1>2, <1>3, <1>4, <1>5, <1>6, <1>7, <1>8, <1>9, <1>10, <1>11, <1>12, <1>13
     DEF Next, Command, Run, Reply

(* The maps, the queue, the timers and the calls of the bot are well typed *)
(* at all times, and every id in use is one that `add` has handed out.     *)
THEOREM TypeCorrect == Spec => []TypeOK
<1>1. Init => TypeOK
  BY TypeInit
<1>2. TypeOK /\ [Next]_vars => TypeOK'
  BY TypeStep
<1> QED
  BY <1>1, <1>2, PTL DEF Spec

-----------------------------------------------------------------------------
(* The steps of the bot, as the invariant sees them *)

(* Every step adds a reminder, leaves an empty map behind, deletes one     *)
(* reminder, is a step of the job, an upgrade or a tick, or leaves the     *)
(* store, the job and the history alone.                                   *)
LEMMA StepCases ==
    ASSUME TypeOK, [Next]_vars
    PROVE  \/ \E c \in Chats, schedule \in Schedules \cup {{}}, due \in Nat :
                ~running /\ due >= now /\ BelowLimits(c) /\ Add(c, schedule, due)
           \/ \E c \in Chats : RejectRecurring(c)
           \/ \E c \in Chats, i \in ChatIds :
                ~running /\ DeleteReminder(c, i) /\ UNCHANGED <<job, sent, now>>
           \/ RunStart \/ RunPop \/ RunEnd \/ Upgrade \/ Tick
           \/ UNCHANGED <<store, job, sent, now>>
<1> USE DEF store, job, vars
<1>1. ASSUME NEW c \in Chats, NEW due \in 0..MaxTime, RemindAt(c, due)
      PROVE  ~running /\ due \in Nat /\ due >= now /\ BelowLimits(c) /\ Add(c, {}, due)
  BY <1>1 DEF RemindAt, MayAdd
<1>2. ASSUME NEW c \in Chats, NEW schedule \in Schedules, RemindRecurring(c, schedule)
      PROVE  \E due \in Nat :
                ~running /\ due >= now /\ BelowLimits(c) /\ Add(c, schedule, due)
  <2>1. PICK first \in schedule : IsNextTime(schedule, now, first) /\ Add(c, schedule, first)
    BY <1>2 DEF RemindRecurring
  <2>2. first \in Nat /\ first >= now
    BY <2>1, ReminderBotAssumption DEF IsNextTime, TypeOK
  <2> QED
    BY <1>2, <2>1, <2>2 DEF RemindRecurring, MayAdd
<1>3. ASSUME NEW c \in Chats, NEW i \in ChatIds, Delete(c, i)
      PROVE  ~running /\ DeleteReminder(c, i) /\ UNCHANGED <<job, sent, now>>
  BY <1>3 DEF Delete
<1>4. ASSUME NEW scope \in Scopes, NEW granted \in SUBSET Permissions,
             SyncApiKey(scope, granted)
      PROVE  UNCHANGED <<store, job, sent, now>>
  BY <1>4 DEF SyncApiKey
<1>5. ASSUME NEW m \in inflight, ReplyIgnored(m)
      PROVE  UNCHANGED <<store, job, sent, now>>
  BY <1>5 DEF ReplyIgnored
<1>6. ASSUME NEW m \in inflight, ReplyRefused(m)
      PROVE  \/ UNCHANGED <<store, job, sent, now>>
             \/ \E c \in Chats, i \in ChatIds :
                    ~running /\ DeleteReminder(c, i) /\ UNCHANGED <<job, sent, now>>
  <2>1. m.chat \in Chats /\ m.chatId \in ChatIds
    BY DEF TypeOK, Call
  <2> QED
    BY <1>6, <2>1 DEF ReplyRefused
<1>7. CASE UNCHANGED vars
  BY <1>7
<1>8. CASE Command
  BY <1>1, <1>2, <1>3, <1>4, <1>8 DEF Command
<1>9. CASE Reply
  BY <1>5, <1>6, <1>9 DEF Reply
<1> QED
  BY <1>7, <1>8, <1>9 DEF Next, Run

-----------------------------------------------------------------------------
(* The two indexes *)

(* The index perChat has an entry for reminder i of chat c. *)
Listed(index, c, i) == c \in DOMAIN index /\ i \in DOMAIN index[c]

(* delete_from_chat removes one entry and keeps every other. *)
LEMMA DeleteFromChatEntries ==
    ASSUME NEW c, NEW i, NEW d, NEW j
    PROVE  /\ Listed(DeleteFromChat(c, i), d, j)
                <=> Listed(perChat, d, j) /\ ~(d = c /\ j = i)
           /\ Listed(DeleteFromChat(c, i), d, j)
                => DeleteFromChat(c, i)[d][j] = perChat[d][j]
<1>1. CASE Listed(perChat, c, i) /\ DOMAIN perChat[c] = {i}
  <2>1. DeleteFromChat(c, i) = Without(perChat, c)
    BY <1>1 DEF DeleteFromChat, Listed
  <2> QED
    BY <1>1, <2>1 DEF Listed, Without, Restrict
<1>2. CASE Listed(perChat, c, i) /\ DOMAIN perChat[c] # {i}
  <2>1. DeleteFromChat(c, i) = Put(perChat, c, Without(perChat[c], i))
    BY <1>2 DEF DeleteFromChat, Listed
  <2> QED
    BY <1>2, <2>1 DEF Listed, Without, Restrict, Put
<1>3. CASE ~Listed(perChat, c, i)
  BY <1>3 DEF Listed, DeleteFromChat
<1> QED
  BY <1>1, <1>2, <1>3

(* Removing a reminder from both indexes keeps them in agreement. *)
LEMMA RemoveKeepsIndexes ==
    ASSUME IndexesAgree, NEW c, NEW i, Listed(perChat, c, i),
           perChat' = DeleteFromChat(c, i),
           reminders' = Without(reminders, perChat[c][i])
    PROVE  IndexesAgree'
<1> DEFINE gone == perChat[c][i]
<1>1. \A d, j : Listed(perChat', d, j)
                    <=> Listed(perChat, d, j) /\ ~(d = c /\ j = i)
  BY DeleteFromChatEntries
<1>2. \A d, j : Listed(perChat', d, j) => perChat'[d][j] = perChat[d][j]
  BY DeleteFromChatEntries
<1>3. DOMAIN reminders' = DOMAIN reminders \ {gone}
      /\ \A id \in DOMAIN reminders' : reminders'[id] = reminders[id]
  BY WithoutEntries
<1>4. gone \in DOMAIN reminders /\ reminders[gone].chat = c /\ reminders[gone].chatId = i
  BY DEF IndexesAgree, Listed
<1>5. ASSUME NEW id \in DOMAIN reminders'
      PROVE  /\ Listed(perChat', reminders'[id].chat, reminders'[id].chatId)
             /\ perChat'[reminders'[id].chat][reminders'[id].chatId] = id
  <2> DEFINE r == reminders[id]
  <2>1. id \in DOMAIN reminders /\ id # gone /\ reminders'[id] = r
    BY <1>3
  <2>2. Listed(perChat, r.chat, r.chatId) /\ perChat[r.chat][r.chatId] = id
    BY <2>1 DEF IndexesAgree, Listed
  <2>3. ~(r.chat = c /\ r.chatId = i)
    BY <2>1, <2>2
  <2> QED
    BY <1>1, <1>2, <2>1, <2>2, <2>3
<1>6. ASSUME NEW d, NEW j, Listed(perChat', d, j)
      PROVE  /\ perChat'[d][j] \in DOMAIN reminders'
             /\ reminders'[perChat'[d][j]].chat = d
             /\ reminders'[perChat'[d][j]].chatId = j
  <2>1. Listed(perChat, d, j) /\ ~(d = c /\ j = i) /\ perChat'[d][j] = perChat[d][j]
    BY <1>1, <1>2, <1>6
  <2>2. /\ perChat[d][j] \in DOMAIN reminders
        /\ reminders[perChat[d][j]].chat = d
        /\ reminders[perChat[d][j]].chatId = j
    BY <2>1 DEF IndexesAgree, Listed
  <2>3. perChat[d][j] # gone
    BY <1>4, <2>1, <2>2
  <2> QED
    BY <1>3, <2>1, <2>2, <2>3
<1> QED
  BY <1>5, <1>6 DEF IndexesAgree, Listed

(* `add` enters the new reminder in both indexes, under a free id. *)
LEMMA AddKeepsIndexes ==
    ASSUME TypeOK, IndexesAgree, NEW c \in Chats, NEW schedule, NEW due,
           Add(c, schedule, due)
    PROVE  IndexesAgree'
<1>1. PICK i \in ChatIds :
        /\ IsNextAvailable(i, ChatMap(c))
        /\ perChat' = Put(perChat, c, Put(ChatMap(c), i, nextId))
        /\ reminders' = Put(reminders, nextId,
                            [chat |-> c, chatId |-> i, schedule |-> schedule])
  BY DEF Add
<1>2. nextId \notin DOMAIN reminders
  BY DEF TypeOK, IsMap
<1>3. ~Listed(perChat, c, i)
  BY <1>1 DEF IsNextAvailable, ChatMap, Listed
<1>4. \A d, j : Listed(perChat', d, j) <=> Listed(perChat, d, j) \/ (d = c /\ j = i)
  BY <1>1 DEF Listed, Put, ChatMap, EmptyMap
<1>5. /\ perChat'[c][i] = nextId
      /\ \A d, j : Listed(perChat, d, j) => perChat'[d][j] = perChat[d][j]
  BY <1>1, <1>3 DEF Listed, Put, ChatMap, EmptyMap
<1>6. /\ DOMAIN reminders' = DOMAIN reminders \cup {nextId}
      /\ reminders'[nextId].chat = c /\ reminders'[nextId].chatId = i
      /\ \A id \in DOMAIN reminders : reminders'[id] = reminders[id]
  BY <1>1, <1>2 DEF Put
<1>7. ASSUME NEW id \in DOMAIN reminders'
      PROVE  /\ Listed(perChat', reminders'[id].chat, reminders'[id].chatId)
             /\ perChat'[reminders'[id].chat][reminders'[id].chatId] = id
  <2>1. CASE id = nextId
    BY <1>4, <1>5, <1>6, <2>1
  <2>2. CASE id \in DOMAIN reminders
    <3>1. Listed(perChat, reminders[id].chat, reminders[id].chatId)
          /\ perChat[reminders[id].chat][reminders[id].chatId] = id
      BY <2>2 DEF IndexesAgree, Listed
    <3> QED
      BY <1>4, <1>5, <1>6, <2>2, <3>1
  <2> QED
    BY <1>6, <2>1, <2>2
<1>8. ASSUME NEW d, NEW j, Listed(perChat', d, j)
      PROVE  /\ perChat'[d][j] \in DOMAIN reminders'
             /\ reminders'[perChat'[d][j]].chat = d
             /\ reminders'[perChat'[d][j]].chatId = j
  <2>1. CASE d = c /\ j = i
    BY <1>5, <1>6, <2>1
  <2>2. CASE Listed(perChat, d, j)
    <3>1. /\ perChat[d][j] \in DOMAIN reminders
          /\ reminders[perChat[d][j]].chat = d
          /\ reminders[perChat[d][j]].chatId = j
      BY <2>2 DEF IndexesAgree, Listed
    <3> QED
      BY <1>5, <1>6, <2>2, <3>1
  <2> QED
    BY <1>4, <1>8, <2>1, <2>2
<1> QED
  BY <1>7, <1>8 DEF IndexesAgree, Listed

(* Every step keeps the indexes in agreement. *)
LEMMA IndexesStep ==
    ASSUME TypeOK, IndexesAgree, [Next]_vars
    PROVE  IndexesAgree'
<1> USE DEF store, job
<1>1. ASSUME NEW c \in Chats, NEW schedule, NEW due, Add(c, schedule, due)
      PROVE  IndexesAgree'
  BY <1>1, AddKeepsIndexes
<1>2. ASSUME NEW c \in Chats, RejectRecurring(c)
      PROVE  IndexesAgree'
  <2>1. \A d, j : Listed(perChat', d, j)
            => Listed(perChat, d, j) /\ perChat'[d][j] = perChat[d][j]
    BY <1>2 DEF RejectRecurring, Listed, Put, EmptyMap
  <2>2. \A d, j : Listed(perChat, d, j)
            => Listed(perChat', d, j) /\ perChat'[d][j] = perChat[d][j]
    BY <1>2 DEF RejectRecurring, Listed, Put
  <2>3. reminders' = reminders
    BY <1>2 DEF RejectRecurring
  <2> QED
    BY <2>1, <2>2, <2>3 DEF IndexesAgree, Listed
<1>3. ASSUME NEW c, NEW i, DeleteReminder(c, i)
      PROVE  IndexesAgree'
  BY <1>3, RemoveKeepsIndexes DEF DeleteReminder, Listed
<1>4. CASE RunPop
  <2>1. PICK e \in ordered : e.id \in DOMAIN reminders /\ (PopRecurring(e) \/ PopLast(e))
    BY <1>4 DEF RunPop
  <2>2. CASE PopRecurring(e)
    BY <2>2 DEF PopRecurring, IndexesAgree
  <2>3. CASE PopLast(e)
    <3> DEFINE r == reminders[e.id]
    <3>1. Listed(perChat, r.chat, r.chatId) /\ perChat[r.chat][r.chatId] = e.id
      BY <2>1 DEF IndexesAgree, Listed
    <3> QED
      BY <2>3, <3>1, RemoveKeepsIndexes DEF PopLast
  <2> QED
    BY <2>1, <2>2, <2>3
<1>5. CASE RunStart \/ RunEnd \/ Upgrade \/ Tick \/ UNCHANGED <<store, job, sent, now>>
  BY <1>5 DEF RunStart, RunEnd, Upgrade, Tick, IndexesAgree
<1> QED
  BY <1>1, <1>2, <1>3, <1>4, <1>5, StepCases

-----------------------------------------------------------------------------
(* The queue *)

(* Every step keeps each live reminder in the queue exactly once. *)
LEMMA WaitsStep ==
    ASSUME TypeOK, WaitsOnce, [Next]_vars
    PROVE  WaitsOnce'
<1> USE DEF store, job
<1>1. ASSUME NEW c \in Chats, NEW schedule, NEW due \in Nat, Add(c, schedule, due)
      PROVE  WaitsOnce'
  <2> DEFINE entry == [due |-> due, id |-> nextId]
  <2>1. /\ ordered' = ordered \cup {entry}
        /\ nextId' = nextId + 1 /\ nextId \in Nat
        /\ DOMAIN reminders' = DOMAIN reminders \cup {nextId}
    <3>1. PICK i \in ChatIds :
            reminders' = Put(reminders, nextId,
                             [chat |-> c, chatId |-> i, schedule |-> schedule])
      BY <1>1 DEF Add
    <3>2. ordered' = ordered \cup {entry} /\ nextId' = nextId + 1
      BY <1>1 DEF Add
    <3>3. DOMAIN reminders' = DOMAIN reminders \cup {nextId}
      BY <3>1 DEF Put
    <3>4. nextId \in Nat
      BY DEF TypeOK
    <3> QED
      BY <3>2, <3>3, <3>4
  <2>2. entry.id = nextId
    OBVIOUS
  <2>3. \A e \in ordered : e.id \in Nat /\ e.id < nextId
    BY DEF WaitsOnce, TypeOK, Occurrences
  <2> HIDE DEF entry
  <2>4. \A id \in DOMAIN reminders' : \E e \in ordered' : e.id = id
    BY <2>1, <2>2 DEF WaitsOnce
  <2>5. \A e, f \in ordered' : e.id = f.id => e = f
    BY <2>1, <2>2, <2>3 DEF WaitsOnce
  <2>6. \A e \in ordered' : e.id < nextId'
    BY <2>1, <2>2, <2>3
  <2> QED
    BY <2>4, <2>5, <2>6 DEF WaitsOnce
<1>2. ASSUME NEW c, NEW i, DeleteReminder(c, i)
      PROVE  WaitsOnce'
  <2>1. DOMAIN reminders' \subseteq DOMAIN reminders
    BY <1>2 DEF DeleteReminder, Without, Restrict
  <2>2. UNCHANGED <<ordered, nextId>>
    BY <1>2 DEF DeleteReminder
  <2> QED
    BY <2>1, <2>2 DEF WaitsOnce
<1>3. CASE RunPop
  <2>1. PICK e \in ordered : e.id \in DOMAIN reminders /\ (PopRecurring(e) \/ PopLast(e))
    BY <1>3 DEF RunPop
  <2>2. nextId' = nextId
    BY <1>3 DEF RunPop
  <2>3. CASE PopRecurring(e)
    <3>1. PICK next : ordered' = (ordered \ {e}) \cup {[due |-> next, id |-> e.id]}
      BY <2>3 DEF PopRecurring
    <3>2. reminders' = reminders
      BY <2>3 DEF PopRecurring
    <3> DEFINE again == [due |-> next, id |-> e.id]
    <3>3. again.id = e.id /\ ordered' = (ordered \ {e}) \cup {again}
      BY <3>1
    <3> HIDE DEF again
    <3> QED
      BY <2>1, <2>2, <3>2, <3>3 DEF WaitsOnce
  <2>4. CASE PopLast(e)
    <3>1. ordered' = ordered \ {e} /\ DOMAIN reminders' = DOMAIN reminders \ {e.id}
      BY <2>4, WithoutEntries DEF PopLast
    <3> QED
      BY <2>2, <3>1 DEF WaitsOnce
  <2> QED
    BY <2>1, <2>3, <2>4
<1>4. CASE RunEnd
  <2>1. CASE UNCHANGED ordered
    BY <1>4, <2>1 DEF RunEnd, WaitsOnce
  <2>2. ASSUME NEW e \in ordered, e.id \notin DOMAIN reminders, ordered' = ordered \ {e}
        PROVE  WaitsOnce'
    BY <1>4, <2>2 DEF RunEnd, WaitsOnce
  <2> QED
    BY <1>4, <2>1, <2>2 DEF RunEnd
<1>5. ASSUME \/ \E c \in Chats : RejectRecurring(c)
             \/ RunStart \/ Upgrade \/ Tick \/ UNCHANGED <<store, job, sent, now>>
      PROVE  WaitsOnce'
  <2>1. UNCHANGED <<reminders, ordered, nextId>>
    BY <1>5 DEF RejectRecurring, RunStart, Upgrade, Tick
  <2> QED
    BY <2>1 DEF WaitsOnce
<1> QED
  BY <1>1, <1>2, <1>3, <1>4, <1>5, StepCases

-----------------------------------------------------------------------------
(* The timer *)

(* JobArmed between messages, of a queue and the timer variables after the *)
(* step, while the clock stands still.                                     *)
Armed(queue, tid, armed) ==
    IF queue = {}
    THEN tid = NoTimer /\ armed = {}
    ELSE /\ tid # NoTimer
         /\ armed = {tid}
         /\ \A e \in queue : tid <= Deadline(e.due)
         /\ \E e \in queue : e.due <= tid

(* start_job_if_required arms the job when no timer is set. *)
LEMMA StartJobArms ==
    ASSUME NEW queue \in SUBSET Occurrences, now \in Nat,
           StartJobIfRequired(NoTimer, {}, queue)
    PROVE  Armed(queue, timerId', timers')
<1>1. CASE queue = {}
  BY <1>1 DEF StartJobIfRequired, Armed
<1>2. CASE queue # {}
  <2>1. PICK first \in queue :
          /\ IsFirst(first, queue)
          /\ timerId' = Deadline(first.due)
          /\ timers' = {Deadline(first.due)}
    BY <1>2 DEF StartJobIfRequired
  <2>2. \A e \in queue : e.due \in Nat /\ e.id \in Nat
    BY DEF Occurrences
  <2>3. \A e \in queue : first.due <= e.due
    BY <2>1, <2>2 DEF IsFirst, Precedes
  <2>4. \A e \in queue : Deadline(first.due) <= Deadline(e.due)
    BY <2>2, <2>3 DEF Deadline
  <2>5. Deadline(first.due) \in Nat /\ first.due <= Deadline(first.due)
    BY <2>2, DeadlineType
  <2> QED
    BY <1>2, <2>1, <2>4, <2>5, ReminderBotAssumption DEF Armed
<1> QED
  BY <1>1, <1>2

(* restart_job and start_job_if_required leave the job armed when a new    *)
(* reminder has entered the queue: if the new one is the first, the timer  *)
(* is set again, and if it is not, the timer is early enough for it.       *)
LEMMA AddArms ==
    ASSUME TypeOK, JobArmed, ~running, NEW c \in Chats, NEW schedule, NEW due \in Nat,
           Add(c, schedule, due)
    PROVE  Armed(ordered', timerId', timers')
<1> DEFINE entry == [due |-> due, id |-> nextId]
           queue == ordered \cup {entry}
<1>1. ordered' = queue
  BY DEF Add
<1>2. entry \in Occurrences /\ queue \in SUBSET Occurrences /\ now \in Nat
  BY DEF TypeOK, Occurrences
<1>3. Armed(ordered, timerId, timers)
  BY DEF JobArmed, Armed
<1>4. entry \in queue /\ entry.due = due
  OBVIOUS
<1>5. IF IsFirst(entry, queue)
      THEN RestartJob(queue)
      ELSE StartJobIfRequired(timerId, timers, queue)
  BY DEF Add
<1>6. CASE IsFirst(entry, queue)
  <2>1. timers \ {timerId} = {}
    BY <1>3 DEF Armed
  <2>2. StartJobIfRequired(NoTimer, {}, queue)
    BY <1>5, <1>6, <2>1 DEF RestartJob
  <2> QED
    BY <1>1, <1>2, <2>2, StartJobArms
<1>7. CASE ~IsFirst(entry, queue)
  <2> HIDE DEF entry
  <2>1. PICK f \in ordered : f # entry /\ ~Precedes(entry, f)
    BY <1>7, <1>4 DEF IsFirst
  <2>2. \A e \in queue : e.due \in Nat
    BY <1>2 DEF Occurrences
  <2>3. f.due <= entry.due
    BY <1>4, <2>1, <2>2 DEF Precedes
  <2>4. /\ timerId # NoTimer
        /\ timers = {timerId}
        /\ \A e \in ordered : timerId <= Deadline(e.due)
        /\ \E e \in ordered : e.due <= timerId
    BY <1>3, <2>1 DEF Armed
  <2>5. timerId' = timerId /\ timers' = timers
    BY <1>5, <1>7, <2>4 DEF StartJobIfRequired
  <2>6. timerId \in Nat
    BY <2>4 DEF TypeOK
  <2>7. timerId <= Deadline(entry.due)
    BY <1>2, <1>4, <2>1, <2>2, <2>3, <2>4, <2>6 DEF Deadline
  <2>8. \A e \in queue : timerId <= Deadline(e.due)
    BY <2>4, <2>7
  <2> QED
    BY <1>1, <1>4, <2>4, <2>5, <2>8 DEF Armed
<1> QED
  BY <1>6, <1>7

(* Every step leaves the job armed, or in its loop with no timer set. *)
LEMMA JobStep ==
    ASSUME TypeOK, TypeOK', JobArmed, [Next]_vars
    PROVE  JobArmed'
<1> USE DEF store, job
<1>1. ASSUME ~running', now' = now, Armed(ordered', timerId', timers')
      PROVE  JobArmed'
  BY <1>1 DEF JobArmed, Armed, Deadline
<1>2. ASSUME NEW c \in Chats, NEW schedule, NEW due \in Nat, ~running,
             Add(c, schedule, due)
      PROVE  JobArmed'
  BY <1>1, <1>2, AddArms DEF Add
<1>3. CASE RunStart
  <2>1. timers' = {}
    BY <1>3 DEF RunStart, JobArmed
  <2> QED
    BY <1>3, <2>1 DEF RunStart, JobArmed
<1>4. CASE RunPop
  BY <1>4 DEF RunPop, JobArmed
<1>5. CASE RunEnd
  <2>1. StartJobIfRequired(NoTimer, {}, ordered')
    BY <1>5 DEF RunEnd, JobArmed
  <2>2. ordered' \in SUBSET Occurrences /\ now \in Nat
    BY DEF TypeOK
  <2>3. Armed(ordered', timerId', timers')
    BY <2>1, <2>2, StartJobArms
  <2> QED
    BY <1>1, <1>5, <2>3 DEF RunEnd
<1>6. CASE Upgrade
  <2>1. ordered \in SUBSET Occurrences /\ now \in Nat
    BY DEF TypeOK
  <2>2. Armed(ordered, timerId', timers')
    BY <1>6, <2>1, StartJobArms DEF Upgrade
  <2> QED
    BY <1>1, <1>6, <2>2 DEF Upgrade
<1>7. CASE Tick
  <2>1. /\ UNCHANGED <<running, ordered, timerId, timers>>
        /\ now' = now + 1 /\ now \in Nat
    BY <1>7 DEF Tick, TypeOK
  <2>2. \A e \in ordered : e.due \in Nat
    BY DEF TypeOK, Occurrences
  <2>3. CASE running \/ ordered = {}
    BY <2>1, <2>3 DEF JobArmed
  <2>4. CASE ~(running \/ ordered = {})
    <3>1. timerId \in Nat /\ \A e \in ordered : timerId <= Deadline(e.due)
      BY <2>4 DEF JobArmed, TypeOK
    <3>2. \A e \in ordered : timerId <= Deadline(e.due)'
      BY <2>1, <2>2, <3>1 DEF Deadline
    <3> QED
      BY <2>1, <2>4, <3>2 DEF JobArmed
  <2> QED
    BY <2>3, <2>4
<1>8. ASSUME \/ \E c \in Chats : RejectRecurring(c)
             \/ \E c \in Chats, i \in ChatIds :
                    DeleteReminder(c, i) /\ UNCHANGED <<job, sent, now>>
             \/ UNCHANGED <<store, job, sent, now>>
      PROVE  JobArmed'
  <2>1. UNCHANGED <<running, ordered, timerId, timers, now>>
    BY <1>8 DEF RejectRecurring, DeleteReminder
  <2> QED
    BY <2>1 DEF JobArmed, Deadline
<1> QED
  BY <1>2, <1>3, <1>4, <1>5, <1>6, <1>7, <1>8, StepCases

-----------------------------------------------------------------------------
(* The messages sent *)

(* Every step keeps what waits of a reminder later than what was sent. *)
LEMMA SentStep ==
    ASSUME TypeOK, TypeOK', WaitsOnce, SentOnceInTime, [Next]_vars
    PROVE  SentOnceInTime'
<1> USE DEF store, job
<1>1. ASSUME NEW c \in Chats, NEW schedule, NEW due \in Nat, Add(c, schedule, due)
      PROVE  SentOnceInTime'
  <2> DEFINE entry == [due |-> due, id |-> nextId]
  <2>1. /\ ordered' = ordered \cup {entry} /\ entry.id = nextId
        /\ nextId' = nextId + 1 /\ nextId \in Nat
        /\ sent' = sent /\ now' = now
    BY <1>1 DEF Add, TypeOK
  <2>2. \A s \in sent : s.id \in Nat
    BY DEF TypeOK, Occurrences
  <2> HIDE DEF entry
  <2> QED
    BY <2>1, <2>2 DEF SentOnceInTime
<1>2. CASE RunPop
  <2>1. PICK e \in ordered :
          /\ IsDue(e)
          /\ e.id \in DOMAIN reminders
          /\ PopRecurring(e) \/ PopLast(e)
          /\ Send(reminders[e.id], e)
    BY <1>2 DEF RunPop
  <2>2. nextId' = nextId /\ now' = now /\ now \in Nat
    BY <1>2 DEF RunPop, TypeOK
  <2>3. sent' \subseteq sent \cup {e}
    BY <2>1 DEF Send
  <2>4. e.due \in Nat /\ e.due <= now /\ e.id < nextId
    BY <2>1 DEF IsDue, TypeOK, Occurrences, WaitsOnce
  <2>5. \A f \in ordered' : f.id = e.id => e.due < f.due /\ now < f.due
    <3>1. CASE PopRecurring(e)
      <4>1. PICK next \in reminders[e.id].schedule :
              /\ IsNextTime(reminders[e.id].schedule, now, next)
              /\ ordered' = (ordered \ {e}) \cup {[due |-> next, id |-> e.id]}
        BY <3>1 DEF PopRecurring
      <4>2. reminders[e.id] \in Reminder
        BY <2>1 DEF TypeOK, IsMap
      <4>3. next \in Nat /\ now < next
        BY <4>1, <4>2, <2>2, ReminderBotAssumption DEF Reminder, IsNextTime
      <4> DEFINE again == [due |-> next, id |-> e.id]
      <4>4. again.due = next /\ ordered' = (ordered \ {e}) \cup {again}
        BY <4>1
      <4> HIDE DEF again
      <4> QED
        BY <2>2, <2>4, <4>3, <4>4 DEF WaitsOnce
    <3>2. CASE PopLast(e)
      BY <3>2 DEF PopLast, WaitsOnce
    <3> QED
      BY <2>1, <3>1, <3>2
  <2>6. \A f \in ordered' : f.id # e.id => f \in ordered
    BY <2>1 DEF PopRecurring, PopLast
  <2>7. ASSUME NEW s \in sent'
        PROVE  /\ s.due <= now /\ s.id < nextId
               /\ \A f \in ordered' : f.id = s.id => s.due < f.due
    <3>1. CASE s.id = e.id
      <4>1. s \in Occurrences /\ s.due \in Nat /\ s.due <= now
        BY <2>1, <2>3, <2>4, <2>7 DEF SentOnceInTime, TypeOK, Occurrences
      <4>2. ASSUME NEW f \in ordered', f.id = s.id
            PROVE  s.due < f.due
        <5>1. f \in Occurrences
          BY DEF TypeOK
        <5>2. f.due \in Nat
          BY <5>1 DEF Occurrences
        <5>3. now < f.due
          BY <2>5, <3>1, <4>2
        <5> QED
          BY <2>2, <4>1, <5>2, <5>3
      <4>3. s.id < nextId
        BY <2>4, <3>1
      <4> QED
        BY <4>1, <4>2, <4>3
    <3>2. CASE s.id # e.id
      BY <2>3, <2>6, <2>7, <3>2 DEF SentOnceInTime
    <3> QED
      BY <3>1, <3>2
  <2> QED
    BY <2>2, <2>7 DEF SentOnceInTime
<1>3. CASE Tick
  <2>1. /\ UNCHANGED <<ordered, nextId, sent>>
        /\ now' = now + 1 /\ now \in Nat
    BY <1>3 DEF Tick, TypeOK
  <2>2. \A s \in sent : s.due \in Nat
    BY DEF TypeOK, Occurrences
  <2> QED
    BY <2>1, <2>2 DEF SentOnceInTime
<1>4. ASSUME \/ \E c \in Chats : RejectRecurring(c)
             \/ \E c \in Chats, i \in ChatIds :
                    DeleteReminder(c, i) /\ UNCHANGED <<job, sent, now>>
             \/ RunStart \/ RunEnd \/ Upgrade \/ UNCHANGED <<store, job, sent, now>>
      PROVE  SentOnceInTime'
  <2>1. UNCHANGED <<nextId, sent, now>> /\ ordered' \subseteq ordered
    BY <1>4 DEF RejectRecurring, DeleteReminder, RunStart, RunEnd, Upgrade
  <2> QED
    BY <2>1 DEF SentOnceInTime
<1> QED
  BY <1>1, <1>2, <1>3, <1>4, StepCases

-----------------------------------------------------------------------------
(* The inductive invariant *)

(* At all times the indexes of the store agree, every live reminder waits  *)
(* once in the queue, the timer is armed for the first occurrence due, and *)
(* no message is sent early or twice.                                      *)
THEOREM InvariantCorrect == Spec => []IInv
<1>1. Init => IInv
  <2> SUFFICES ASSUME Init
               PROVE  IInv
    OBVIOUS
  <2>1. TypeOK
    BY TypeInit
  <2>2. DOMAIN reminders = {} /\ DOMAIN perChat = {} /\ ordered = {} /\ sent = {}
        /\ timerId = NoTimer /\ timers = {}
    BY DEF Init, EmptyMap
  <2> QED
    BY <2>1, <2>2 DEF IInv, IndexesAgree, WaitsOnce, JobArmed, SentOnceInTime
<1>2. IInv /\ [Next]_vars => IInv'
  BY TypeStep, IndexesStep, WaitsStep, JobStep, SentStep DEF IInv
<1> QED
  BY <1>1, <1>2, PTL DEF Spec

-----------------------------------------------------------------------------
(* What follows from the invariant *)

(* At all times the two indexes of the store agree: no reminder can be     *)
(* reached under one and not under the other.                              *)
THEOREM IndexesCorrect == Spec => []IndexesAgree
BY InvariantCorrect, PTL DEF IInv

(* At all times a live reminder waits for exactly one instant.             *)
THEOREM QueueCorrect == Spec => []WaitsOnce
BY InvariantCorrect, PTL DEF IInv

(* At all times between messages the timer is armed if something waits,    *)
(* and for no later than the first occurrence.                             *)
THEOREM JobCorrect == Spec => []JobArmed
BY InvariantCorrect, PTL DEF IInv

(* No message is ever sent early, or twice.                                *)
THEOREM SentCorrect == Spec => []SentOnceInTime
BY InvariantCorrect, PTL DEF IInv

-----------------------------------------------------------------------------
(* The limits *)

(* The limit `add` checks first holds of the store. *)
TotalWithinLimit == Cardinality(DOMAIN reminders) <= MaxReminders

(* There are finitely many reminders. *)
LEMMA FinitelyMany ==
    ASSUME TypeOK
    PROVE  /\ IsFiniteSet(DOMAIN reminders)
           /\ Cardinality(DOMAIN reminders) \in Nat
<1>1. nextId \in Nat
  BY ReminderBotAssumption DEF TypeOK
<1>2. IsFiniteSet(0..(nextId - 1))
  BY <1>1, FS_Interval
<1>3. DOMAIN reminders \in SUBSET (0..(nextId - 1))
  BY DEF TypeOK, IsMap
<1>4. IsFiniteSet(DOMAIN reminders)
  BY <1>2, <1>3, FS_Subset
<1> QED
  BY <1>4, FS_CardinalityType

(* No step takes the store beyond the total limit. *)
LEMMA TotalStep ==
    ASSUME TypeOK, TotalWithinLimit, [Next]_vars
    PROVE  TotalWithinLimit'
<1> USE DEF store, job
<1>1. ASSUME NEW c \in Chats, NEW schedule, NEW due \in Nat,
             BelowLimits(c), Add(c, schedule, due)
      PROVE  TotalWithinLimit'
  <2>1. PICK i \in ChatIds :
          reminders' = Put(reminders, nextId,
                           [chat |-> c, chatId |-> i, schedule |-> schedule])
    BY <1>1 DEF Add
  <2>2. DOMAIN reminders' = DOMAIN reminders \cup {nextId}
    BY <2>1 DEF Put
  <2>3. Cardinality(DOMAIN reminders') <= Cardinality(DOMAIN reminders) + 1
    BY <2>2, FinitelyMany, FS_AddElement
  <2>4. Cardinality(DOMAIN reminders') \in Nat
    BY <2>2, FinitelyMany, FS_AddElement
  <2>5. Cardinality(DOMAIN reminders) < MaxReminders
    BY <1>1 DEF BelowLimits
  <2> QED
    BY <2>3, <2>4, <2>5, FinitelyMany, ReminderBotAssumption DEF TotalWithinLimit
<1>2. ASSUME DOMAIN reminders' \in SUBSET DOMAIN reminders
      PROVE  TotalWithinLimit'
  <2>1. /\ IsFiniteSet(DOMAIN reminders')
        /\ Cardinality(DOMAIN reminders') <= Cardinality(DOMAIN reminders)
    BY <1>2, FinitelyMany, FS_Subset
  <2>2. Cardinality(DOMAIN reminders') \in Nat
    BY <2>1, FS_CardinalityType
  <2> QED
    BY <2>1, <2>2, FinitelyMany, ReminderBotAssumption DEF TotalWithinLimit
<1>3. ASSUME NEW c, NEW i, DeleteReminder(c, i)
      PROVE  DOMAIN reminders' \in SUBSET DOMAIN reminders
  BY <1>3 DEF DeleteReminder, Without, Restrict
<1>4. CASE RunPop
  <2>1. PICK e : PopRecurring(e) \/ PopLast(e)
    BY <1>4 DEF RunPop
  <2>2. DOMAIN reminders' \in SUBSET DOMAIN reminders
    BY <2>1 DEF PopRecurring, PopLast, Without, Restrict
  <2> QED
    BY <1>2, <2>2
<1>5. ASSUME \/ \E c \in Chats : RejectRecurring(c)
             \/ RunStart \/ RunEnd \/ Upgrade \/ Tick
             \/ UNCHANGED <<store, job, sent, now>>
      PROVE  DOMAIN reminders' \in SUBSET DOMAIN reminders
  BY <1>5 DEF RejectRecurring, RunStart, RunEnd, Upgrade, Tick
<1> QED
  BY <1>1, <1>2, <1>3, <1>4, <1>5, StepCases

(* The chat's limit is a consequence of the indexes: the reminders of a    *)
(* chat have distinct chat reminder ids, of which there are only so many.  *)
LEMMA ChatWithinLimit ==
    ASSUME TypeOK, IndexesAgree, NEW c \in Chats
    PROVE  Cardinality({id \in DOMAIN reminders : reminders[id].chat = c})
               <= MaxRemindersPerChat
<1> DEFINE mine == {id \in DOMAIN reminders : reminders[id].chat = c}
           chatId == [id \in mine |-> reminders[id].chatId]
<1>1. chatId \in [mine -> ChatIds]
  BY DEF TypeOK, IsMap, Reminder
<1>2. \A id, other \in mine : chatId[id] = chatId[other] => id = other
  BY DEF IndexesAgree
<1>3. chatId \in Injection(mine, ChatIds)
  BY <1>1, <1>2 DEF Injection, IsInjective
<1>4. IsFiniteSet(ChatIds) /\ Cardinality(ChatIds) = MaxRemindersPerChat
  BY FS_Interval, ReminderBotAssumption DEF ChatIds
<1> HIDE DEF chatId
<1> QED
  BY <1>3, <1>4, FS_Injection

(* The bot never holds more reminders than its limits allow, of one chat   *)
(* or of all together.                                                     *)
THEOREM LimitsCorrect == Spec => []WithinLimits
<1>1. Init => TotalWithinLimit
  <2> SUFFICES ASSUME Init
               PROVE  TotalWithinLimit
    OBVIOUS
  <2>1. DOMAIN reminders = {}
    BY DEF Init, EmptyMap
  <2> QED
    BY <2>1, FS_EmptySet, ReminderBotAssumption DEF TotalWithinLimit
<1>2. IInv /\ TotalWithinLimit /\ [Next]_vars => TotalWithinLimit'
  BY TotalStep DEF IInv
<1>3. IInv /\ TotalWithinLimit => WithinLimits
  BY ChatWithinLimit DEF IInv, WithinLimits, TotalWithinLimit
<1> QED
  BY <1>1, <1>2, <1>3, InvariantCorrect, PTL DEF Spec

-----------------------------------------------------------------------------
(* What leaves the queue *)

(* Only the job takes an occurrence from the queue, only when it is due,   *)
(* and it sends it if the reminder is live and a key allows it.            *)
THEOREM LeavesCorrect == Spec => OccurrenceLeavesWhenDue
<1> DEFINE Taken(e) ==
             /\ running
             /\ e.due <= now
             /\ (e.id \in DOMAIN reminders /\ HasKey(apiKeys, reminders[e.id].chat, TextOnly))
                 => e \in sent'
<1>1. TypeOK /\ [Next]_vars => [\A e \in ordered \ ordered' : Taken(e)]_vars
  <2> SUFFICES ASSUME TypeOK, [Next]_vars, NEW e \in ordered, e \notin ordered'
               PROVE  Taken(e)
    OBVIOUS
  <2> USE DEF store, job
  <2>1. CASE RunPop
    <3>1. PICK f \in ordered :
            IsDue(f) /\ (PopRecurring(f) \/ PopLast(f)) /\ Send(reminders[f.id], f)
      BY <2>1 DEF RunPop
    <3>2. f = e
      BY <3>1 DEF PopRecurring, PopLast
    <3> QED
      BY <2>1, <3>1, <3>2 DEF RunPop, IsDue, Send, MaySend
  <2>2. CASE RunEnd
    BY <2>2 DEF RunEnd, IsDue
  <2>3. ASSUME \/ \E c \in Chats, schedule \in Schedules \cup {{}}, due \in Nat :
                    Add(c, schedule, due)
               \/ \E c \in Chats : RejectRecurring(c)
               \/ \E c \in Chats, i \in ChatIds : DeleteReminder(c, i)
               \/ RunStart \/ Upgrade \/ Tick \/ UNCHANGED <<store, job, sent, now>>
        PROVE  FALSE
    <3>1. ordered \subseteq ordered'
      BY <2>3 DEF Add, RejectRecurring, DeleteReminder, RunStart, Upgrade, Tick
    <3> QED
      BY <3>1
  <2> QED
    BY <2>1, <2>2, <2>3, StepCases
<1> QED
  BY <1>1, TypeCorrect, PTL DEF Spec, OccurrenceLeavesWhenDue

-----------------------------------------------------------------------------
(* The reminder service *)

ServiceIds == 0..(MaxAdds - 1)
ServiceInstants == 0..MaxTime \cup UNION Schedules
Pending == [id \in DOMAIN reminders |-> PendingDue(id)]

(* The occurrence of a reminder is found by its id alone.                  *)
LEMMA PendingDueIs ==
    ASSUME WaitsOnce, NEW e \in ordered
    PROVE  PendingDue(e.id) = e.due
BY DEF WaitsOnce, PendingDue

(* A reminder whose occurrence stays in the queue is pending as before.    *)
LEMMA PendingDueKept ==
    ASSUME WaitsOnce, WaitsOnce', NEW id \in DOMAIN reminders,
           \A e \in ordered : e.id = id => e \in ordered'
    PROVE  PendingDue(id)' = PendingDue(id)
<1>1. PICK e \in ordered : e.id = id
  BY DEF WaitsOnce
<1>2. PendingDue(id) = e.due
  BY <1>1, PendingDueIs
<1>3. PendingDue(id)' = e.due
  BY <1>1 DEF WaitsOnce, PendingDue
<1> QED
  BY <1>2, <1>3

(* The ids of reminders are names of the service, and taken.               *)
LEMMA IdsTaken ==
    ASSUME TypeOK, NEW id \in DOMAIN reminders
    PROVE  id \in ServiceIds /\ id \in 0..(nextId - 1)
BY ReminderBotAssumption DEF TypeOK, IsMap, ServiceIds

(* A reminder that is added is accepted, under a name not used before.     *)
LEMMA AddAccepts ==
    ASSUME IInv, IInv', NEW c, NEW schedule, NEW due \in ServiceInstants,
           due >= now, Add(c, schedule, due)
    PROVE  Service!Next
<1> PICK id : id = nextId
  OBVIOUS
<1> DEFINE entry == [due |-> due, id |-> id]
<1>1. /\ nextId \in Nat /\ nextId < MaxAdds /\ nextId' = nextId + 1
      /\ DOMAIN reminders' = DOMAIN reminders \cup {id}
      /\ ordered' = ordered \cup {entry}
      /\ UNCHANGED <<sent, now>>
  <2>1. PICK i \in ChatIds : reminders' = Put(reminders, nextId,
                                [chat |-> c, chatId |-> i, schedule |-> schedule])
    BY DEF Add
  <2>2. nextId \in Nat
    BY ReminderBotAssumption DEF IInv, TypeOK
  <2> QED
    BY <2>1, <2>2, PutEntries DEF Add
<1>2. id \in ServiceIds /\ id \notin 0..(nextId - 1) /\ id \notin DOMAIN reminders
  BY <1>1, IdsTaken, ReminderBotAssumption DEF IInv, ServiceIds
<1>3. 0..(nextId' - 1) = 0..(nextId - 1) \cup {id}
  BY <1>1
<1>4. PendingDue(id)' = due
  <2>1. entry \in ordered' /\ entry.id = id /\ entry.due = due
    BY <1>1
  <2> HIDE DEF entry
  <2> QED
    BY <2>1 DEF IInv, WaitsOnce, PendingDue
<1>5. \A other \in DOMAIN reminders : PendingDue(other)' = PendingDue(other)
  BY <1>1, PendingDueKept DEF IInv
<1>6. Pending' = Put(Pending, id, due)
  BY <1>1, <1>2, <1>4, <1>5 DEF Pending, Put
<1>7. Service!Accept(id, due)
  BY <1>1, <1>2, <1>3, <1>6 DEF Service!Accept, Service!Put, Put, Pending
<1> QED
  BY <1>2, <1>7 DEF Service!Next, ServiceIds, ServiceInstants

(* A reminder that is deleted, by a command or a refusal, is cancelled.    *)
LEMMA DeleteCancels ==
    ASSUME IInv, IInv', NEW c, NEW i, DeleteReminder(c, i), UNCHANGED <<sent, now>>
    PROVE  Service!Next
<1> DEFINE gone == perChat[c][i]
<1>1. gone \in DOMAIN reminders
  BY DEF DeleteReminder, IInv, IndexesAgree
<1>2. /\ DOMAIN reminders' = DOMAIN reminders \ {gone}
      /\ UNCHANGED <<ordered, nextId>>
  BY WithoutEntries DEF DeleteReminder
<1>3. \A id \in DOMAIN reminders : PendingDue(id)' = PendingDue(id)
  BY <1>2 DEF PendingDue
<1> HIDE DEF gone
<1>4. Pending' = Without(Pending, gone)
  BY <1>2, <1>3 DEF Pending, Without, Restrict
<1>5. Service!Cancel(gone)
  BY <1>1, <1>2, <1>4
     DEF Service!Cancel, Service!Without, Service!Restrict, Without, Restrict, Pending
<1> QED
  BY <1>1, <1>5, IdsTaken DEF Service!Next, ServiceIds, IInv

(* An occurrence that the job pops is fired.                               *)
LEMMA PopFires == ASSUME IInv, IInv', RunPop PROVE Service!Next
<1>1. PICK e \in ordered :
        /\ IsDue(e)
        /\ e.id \in DOMAIN reminders
        /\ PopRecurring(e) \/ PopLast(e)
        /\ Send(reminders[e.id], e)
  BY DEF RunPop
<1>2. UNCHANGED <<nextId, now>>
  BY DEF RunPop, job
<1>3. e \in Occurrences /\ PendingDue(e.id) = e.due
  BY PendingDueIs DEF IInv, TypeOK
<1>4. e = [due |-> PendingDue(e.id), id |-> e.id] /\ PendingDue(e.id) <= now
  BY <1>1, <1>3 DEF Occurrences, IsDue
<1>5. sent' = sent \cup {e} \/ UNCHANGED sent
  BY <1>1 DEF Send
<1>6. \A f \in ordered : f.id # e.id => f \in ordered'
  BY <1>1 DEF PopRecurring, PopLast
<1>7. \A id \in DOMAIN reminders : id # e.id => PendingDue(id)' = PendingDue(id)
  BY <1>6, PendingDueKept DEF IInv
<1>8. \/ Pending' = Without(Pending, e.id)
      \/ \E next \in ServiceInstants : next > now /\ Pending' = Put(Pending, e.id, next)
  <2>1. CASE PopRecurring(e)
    <3>1. PICK next \in reminders[e.id].schedule :
            /\ IsNextTime(reminders[e.id].schedule, now, next)
            /\ ordered' = (ordered \ {e}) \cup {[due |-> next, id |-> e.id]}
      BY <2>1 DEF PopRecurring
    <3>2. UNCHANGED reminders
      BY <2>1 DEF PopRecurring
    <3>3. next \in ServiceInstants /\ next > now
      <4>1. reminders[e.id] \in Reminder
        BY <1>1 DEF IInv, TypeOK, IsMap
      <4> QED
        BY <3>1, <4>1 DEF Reminder, IsNextTime, ServiceInstants
    <3>4. PendingDue(e.id)' = next
      <4> DEFINE again == [due |-> next, id |-> e.id]
      <4>1. again \in ordered' /\ again.id = e.id /\ again.due = next
        BY <3>1
      <4> HIDE DEF again
      <4> QED
        BY <4>1 DEF IInv, WaitsOnce, PendingDue
    <3>5. Pending' = Put(Pending, e.id, next)
      BY <1>1, <1>7, <3>2, <3>4 DEF Pending, Put
    <3> QED
      BY <3>3, <3>5
  <2>2. CASE PopLast(e)
    <3>1. DOMAIN reminders' = DOMAIN reminders \ {e.id}
      BY <2>2, WithoutEntries DEF PopLast
    <3> QED
      BY <1>7, <3>1 DEF Pending, Without, Restrict
  <2> QED
    BY <1>1, <2>1, <2>2
<1>9. Service!Fire(e.id)
  BY <1>1, <1>2, <1>4, <1>5, <1>8
     DEF Service!Fire, Service!Put, Service!Without, Service!Restrict, Put, Without, Restrict,
         Pending, ServiceInstants
<1> QED
  BY <1>1, <1>9, IdsTaken DEF Service!Next, ServiceIds, IInv

(* What touches no live reminder and no message sent changes nothing.      *)
LEMMA ServiceStutters ==
    ASSUME IInv, IInv', UNCHANGED <<reminders, nextId, sent, now>>,
           \A e \in ordered : e.id \in DOMAIN reminders => e \in ordered'
    PROVE  UNCHANGED Service!vars
<1>1. \A id \in DOMAIN reminders : PendingDue(id)' = PendingDue(id)
  BY PendingDueKept DEF IInv
<1> QED
  BY <1>1 DEF Service!vars

(* Every step of the bot is a step of the service, or changes nothing.     *)
LEMMA ServiceStep ==
    ASSUME IInv, IInv', [Next]_vars
    PROVE  [Service!Next]_(Service!vars)
<1> USE DEF store, job, vars
<1>1. ASSUME NEW c \in Chats, NEW due \in 0..MaxTime, RemindAt(c, due)
      PROVE  Service!Next
  BY <1>1, AddAccepts DEF RemindAt, ServiceInstants
<1>2. ASSUME NEW c \in Chats, NEW schedule \in Schedules, RemindRecurring(c, schedule)
      PROVE  Service!Next
  <2>1. PICK first \in schedule : IsNextTime(schedule, now, first) /\ Add(c, schedule, first)
    BY <1>2 DEF RemindRecurring
  <2>2. first \in ServiceInstants /\ first >= now
    BY <2>1, ReminderBotAssumption DEF IsNextTime, ServiceInstants, IInv, TypeOK
  <2> QED
    BY <2>1, <2>2, AddAccepts
<1>3. ASSUME NEW c, NEW i, DeleteReminder(c, i), UNCHANGED <<sent, now>>
      PROVE  Service!Next
  BY <1>3, DeleteCancels
<1>4. CASE Tick
  <2>1. UNCHANGED <<reminders, ordered, nextId, sent>> /\ now' = now + 1
    BY <1>4 DEF Tick
  <2>2. Service!Tick
    BY <2>1 DEF Service!Tick, PendingDue
  <2> QED
    BY <2>2 DEF Service!Next
<1>5. ASSUME \/ \E c \in Chats : RejectRecurring(c)
             \/ \E scope, granted : SyncApiKey(scope, granted)
             \/ RunStart \/ Upgrade
             \/ \E m \in inflight : ReplyIgnored(m)
             \/ UNCHANGED <<store, sent, now>>
      PROVE  UNCHANGED Service!vars
  <2>1. UNCHANGED <<reminders, ordered, nextId, sent, now>>
    BY <1>5 DEF RejectRecurring, SyncApiKey, RunStart, Upgrade, ReplyIgnored
  <2> QED
    BY <2>1, ServiceStutters
<1>6. CASE RunEnd
  <2>1. /\ UNCHANGED <<reminders, nextId, sent, now>>
        /\ \A e \in ordered : e.id \in DOMAIN reminders => e \in ordered'
    BY <1>6 DEF RunEnd
  <2> QED
    BY <2>1, ServiceStutters
<1>7. CASE Command
  BY <1>1, <1>2, <1>3, <1>5, <1>7 DEF Command, Delete
<1>8. CASE Run
  BY <1>5, <1>6, <1>8, PopFires DEF Run
<1>9. CASE Reply
  BY <1>3, <1>5, <1>9 DEF Reply, ReplyRefused
<1> QED
  BY <1>4, <1>5, <1>7, <1>8, <1>9 DEF Next

(* The bot does what a reminder service promises: it holds each reminder   *)
(* it accepts until it is cancelled or ends, and delivers each occurrence  *)
(* at most once and never early, whatever upgrades and refusals come.      *)
THEOREM ServiceImplemented == Spec => ImplementsService
<1>1. Init => Service!Init
  <2> SUFFICES ASSUME Init
               PROVE  Service!Init
    OBVIOUS
  <2>1. DOMAIN reminders = {} /\ nextId = 0 /\ sent = {} /\ now = 0
    BY DEF Init, EmptyMap
  <2>2. 0..(nextId - 1) = {}
    BY <2>1
  <2> QED
    BY <2>1, <2>2 DEF Service!Init, Service!EmptyMap
<1>2. IInv /\ IInv' /\ [Next]_vars => [Service!Next]_(Service!vars)
  BY ServiceStep
<1> QED
  BY <1>1, <1>2, InvariantCorrect, PTL DEF Spec, ImplementsService, Service!Spec
=============================================================================
