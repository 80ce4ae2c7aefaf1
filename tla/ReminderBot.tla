----------------------------- MODULE ReminderBot -----------------------------
(***************************************************************************)
(* The reminder bot, a canister of the Internet Computer that keeps the    *)
(* reminders set in its chats and posts each one when it is due.           *)
(*                                                                         *)
(* A canister handles one message at a time: a command, an upgrade, the    *)
(* firing of a timer or the reply to an earlier call.  Each is one action, *)
(* except the timer job `run`, whose loop takes one step per reminder;     *)
(* while it runs (`running`) no other message is handled and the clock,    *)
(* which is constant within a message, does not move.                      *)
(***************************************************************************)
EXTENDS ApiKeys, Integers, FiniteSets

CONSTANTS
    Schedules,               \* the recurring schedules, as sets of instants
    MinGap,                  \* the least distance of two occurrences (10 minutes)
    MaxReminders,            \* MAX_REMINDERS
    MaxRemindersPerChat,     \* MAX_REMINDERS_PER_CHAT
    NoTimer,
    MaxTime,                 \* bound on the clock
    MaxAdds                  \* bound on the number of reminders ever accepted

ASSUME ReminderBotAssumption ==
    /\ Schedules \subseteq SUBSET Nat
    /\ MinGap \in Nat
    /\ MaxReminders \in Nat
    /\ MaxRemindersPerChat \in Nat
    /\ NoTimer \notin Nat
    /\ MaxTime \in Nat
    /\ MaxAdds \in Nat

VARIABLES
    reminders,   \* Reminders.reminders: global id -> reminder
    perChat,     \* Reminders.per_chat: chat -> (chat reminder id -> global id)
    ordered,     \* Reminders.ordered: the queue of occurrences
    nextId,      \* Reminders.next_id
    timerId,     \* TIMER_ID, a timer being named by its deadline
    timers,      \* the deadlines of the timers the platform holds
    running,     \* whether `run` is in its loop
    apiKeys,     \* the API key registry
    inflight,    \* the send_reminder calls that await their reply
    sent,        \* history: the occurrences whose message was sent
    now

store == <<reminders, perChat, ordered, nextId>>
job == <<timerId, timers, running>>
vars == <<store, job, apiKeys, inflight, sent, now>>

TextOnly == {"text"}

(* An entry of the ordered set: reminder id is due at instant due. *)
Occurrences == [due : Nat, id : Nat]

ChatIds == 1..MaxRemindersPerChat

(* A one-off reminder has the empty schedule, RemindWhen::Once. *)
Reminder == [chat : Chats, chatId : ChatIds, schedule : Schedules \cup {{}}]

(* What the closure of send_reminder has captured, and (only to tell the   *)
(* calls apart) the occurrence it was spawned for.                         *)
Call == [chat : Chats, chatId : ChatIds, occurrence : Occurrences]

TypeOK ==
    /\ IsMap(reminders, 0..(nextId - 1), Reminder)
    /\ DOMAIN perChat \subseteq Chats
    /\ \A c \in DOMAIN perChat : IsMap(perChat[c], ChatIds, 0..(nextId - 1))
    /\ ordered \subseteq Occurrences
    /\ nextId \in 0..MaxAdds
    /\ timerId \in Nat \cup {NoTimer}
    /\ timers \subseteq Nat
    /\ running \in BOOLEAN
    /\ IsKeys(apiKeys)
    /\ inflight \subseteq Call
    /\ sent \subseteq Occurrences
    /\ now \in 0..MaxTime

Init ==
    /\ reminders = EmptyMap
    /\ perChat = EmptyMap
    /\ ordered = {}
    /\ nextId = 0
    /\ timerId = NoTimer
    /\ timers = {}
    /\ running = FALSE
    /\ apiKeys = EmptyMap
    /\ inflight = {}
    /\ sent = {}
    /\ now = 0

-----------------------------------------------------------------------------
(* The queue of occurrences *)

(* The order of the tuples (timestamp, id) in the BTreeSet. *)
Precedes(e, f) == e.due < f.due \/ (e.due = f.due /\ e.id < f.id)

(* peek() *)
IsFirst(e, queue) == e \in queue /\ \A f \in queue : f = e \/ Precedes(e, f)

(* Fault: the search for the next instant includes t itself. *)
FaultyNextTimeInclusive(schedule, t, next) ==
    next \in schedule /\ next >= t /\ \A u \in schedule : u >= t => next <= u

(* Fault: an occurrence is taken for due before its instant. *)
FaultyIsDue(e) == e.due <= now + 1

(* The test of pop_next_due_reminder on the first occurrence *)
IsDue(e) == e.due <= now

(* next_reminder_time: the first instant of the schedule strictly after t. *)
IsNextTime(schedule, t, next) ==
    /\ next \in schedule
    /\ next > t
    /\ \A u \in schedule : u > t => next <= u

(* ... which with check_frequency must not be followed by another too soon. *)
NotTooFrequent(schedule, first) ==
    \A u \in schedule : u > first => u - first >= MinGap

(* delete_from_chat: removes the id, and the chat's map once it is empty. *)
DeleteFromChat(c, i) ==
    IF c \in DOMAIN perChat /\ i \in DOMAIN perChat[c]
    THEN IF DOMAIN perChat[c] = {i}
         THEN Without(perChat, c)
         ELSE Put(perChat, c, Without(perChat[c], i))
    ELSE perChat

-----------------------------------------------------------------------------
(* The timer *)

(* Fault: the delay, not saturated, is taken for the deadline. *)
FaultyDeadline(due) == due - now

(* set_timer(due.saturating_sub(now)) *)
Deadline(due) == IF due > now THEN due ELSE now

(* start_job_if_required, entered with TIMER_ID = tid while the platform   *)
(* holds the timers armed.                                                 *)
StartJobIfRequired(tid, armed, queue) ==
    IF tid = NoTimer /\ queue # {}
    THEN \E e \in queue :
            /\ IsFirst(e, queue)
            /\ timerId' = Deadline(e.due)
            /\ timers' = armed \cup {Deadline(e.due)}
    ELSE /\ timerId' = tid
         /\ timers' = armed

(* Fault: the timer of a later reminder is kept. *)
FaultyRestartKeepsTimer(queue) == StartJobIfRequired(timerId, timers, queue)

(* Fault: the timer is cleared and not set again. *)
FaultyRestartOnlyClears(queue) ==
    timerId' = NoTimer /\ timers' = timers \ {timerId}

(* restart_job: clear_timer, then start_job_if_required *)
RestartJob(queue) ==
    StartJobIfRequired(NoTimer, timers \ {timerId}, queue)

-----------------------------------------------------------------------------
(* The commands *)

(* Fault: one reminder more than the limit is let in. *)
FaultyBelowLimits(c) ==
    /\ Cardinality(DOMAIN reminders) <= MaxReminders
    /\ c \in DOMAIN perChat => Cardinality(DOMAIN perChat[c]) < MaxRemindersPerChat

(* The limits `add` checks *)
BelowLimits(c) ==
    /\ Cardinality(DOMAIN reminders) < MaxReminders
    /\ c \in DOMAIN perChat => Cardinality(DOMAIN perChat[c]) < MaxRemindersPerChat

(* Fault: only a key of the chat itself is looked for. *)
FaultyMaySend(c) == Grants(apiKeys, c, TextOnly)

(* get_key_with_required_permissions(chat, text_only) finds a key. *)
MaySend(c) == HasKey(apiKeys, c, TextOnly)

(* The checks of remind_at and remind_recurring, and the first of `add`. *)
MayAdd(c) == ~running /\ MaySend(c) /\ BelowLimits(c)

(* The chat's map, which `add` creates when there is none. *)
ChatMap(c) == IF c \in DOMAIN perChat THEN perChat[c] ELSE EmptyMap

(* Fault: ids are handed out by counting, which forgets deleted ones. *)
FaultyAvailableByCount(i, map) == i = Cardinality(DOMAIN map) + 1

(* get_next_available_chat_id *)
IsNextAvailable(i, map) ==
    /\ i \in ChatIds \ DOMAIN map
    /\ \A j \in ChatIds \ DOMAIN map : i <= j

(* The rest of `add`, then restart_job when the new reminder is the next   *)
(* one due and start_job_if_required when it is not.                       *)
Add(c, schedule, due) ==
    LET entry == [due |-> due, id |-> nextId]
        queue == ordered \cup {entry}
    IN
    /\ nextId < MaxAdds
    /\ \E i \in ChatIds :
        /\ IsNextAvailable(i, ChatMap(c))
        /\ perChat' = Put(perChat, c, Put(ChatMap(c), i, nextId))
        /\ reminders' = Put(reminders, nextId,
                            [chat |-> c, chatId |-> i, schedule |-> schedule])
    /\ ordered' = queue
    /\ nextId' = nextId + 1
    /\ IF IsFirst(entry, queue)
       THEN RestartJob(queue)
       ELSE StartJobIfRequired(timerId, timers, queue)
    /\ UNCHANGED <<running, apiKeys, inflight, sent, now>>

(* /remind_at: check_args has refused instants in the past (future_only). *)
RemindAt(c, due) ==
    /\ MayAdd(c)
    /\ due >= now
    /\ Add(c, {}, due)

(* /remind_recurring with a schedule that is accepted *)
RemindRecurring(c, schedule) ==
    /\ MayAdd(c)
    /\ \E first \in schedule :
        /\ IsNextTime(schedule, now, first)
        /\ NotTooFrequent(schedule, first)
        /\ Add(c, schedule, first)

(* /remind_recurring with a text that cannot be parsed or a schedule that  *)
(* has no next instant or is too frequent: `add` returns the error after   *)
(* it has created the chat's map.                                          *)
RejectRecurring(c) ==
    /\ MayAdd(c)
    /\ c \notin DOMAIN perChat
    /\ perChat' = Put(perChat, c, EmptyMap)
    /\ UNCHANGED <<reminders, ordered, nextId, job, apiKeys, inflight, sent, now>>

(* Reminders::delete.  The occurrence stays in the queue. *)
DeleteReminder(c, i) ==
    /\ c \in DOMAIN perChat
    /\ i \in DOMAIN perChat[c]
    /\ perChat' = DeleteFromChat(c, i)
    /\ reminders' = Without(reminders, perChat[c][i])
    /\ UNCHANGED <<ordered, nextId>>

(* /delete_reminder *)
Delete(c, i) ==
    /\ ~running
    /\ DeleteReminder(c, i)
    /\ UNCHANGED <<job, apiKeys, inflight, sent, now>>

(* /sync_api_key: the key replaces the one registered under its scope. *)
SyncApiKey(scope, granted) ==
    /\ ~running
    /\ apiKeys' = Put(apiKeys, scope, granted)
    /\ UNCHANGED <<store, job, inflight, sent, now>>

-----------------------------------------------------------------------------
(* The timer job *)

(* The platform fires a timer whose deadline has passed: `run` starts. *)
RunStart ==
    /\ ~running
    /\ \E d \in timers : d <= now /\ timers' = timers \ {d}
    /\ timerId' = NoTimer
    /\ running' = TRUE
    /\ UNCHANGED <<store, apiKeys, inflight, sent, now>>

(* send_reminder is spawned with the reminder's chat and chat reminder id, *)
(* if a key allows it; otherwise the occurrence is skipped.                *)
Send(r, e) ==
    IF MaySend(r.chat)
    THEN /\ inflight' = inflight \cup
                {[chat |-> r.chat, chatId |-> r.chatId, occurrence |-> e]}
         /\ sent' = sent \cup {e}
    ELSE UNCHANGED <<inflight, sent>>

(* pop_next_due_reminder takes the occurrence of a reminder that recurs *)
PopRecurring(e) ==
    /\ \E next \in reminders[e.id].schedule :
        /\ IsNextTime(reminders[e.id].schedule, now, next)
        /\ ordered' = (ordered \ {e}) \cup {[due |-> next, id |-> e.id]}
    /\ UNCHANGED <<reminders, perChat>>

(* Fault: the reminder that ends is not removed. *)
FaultyPopLastKeeps(e) ==
    /\ \A u \in reminders[e.id].schedule : u <= now
    /\ ordered' = ordered \ {e}
    /\ UNCHANGED <<reminders, perChat>>

(* ... or of a one-off reminder, or one whose schedule has ended. *)
PopLast(e) ==
    /\ \A u \in reminders[e.id].schedule : u <= now
    /\ ordered' = ordered \ {e}
    /\ reminders' = Without(reminders, e.id)
    /\ perChat' = DeleteFromChat(reminders[e.id].chat, reminders[e.id].chatId)

(* One turn of the loop of `run` *)
RunPop ==
    /\ running
    /\ \E e \in ordered :
        /\ IsFirst(e, ordered)
        /\ IsDue(e)
        /\ e.id \in DOMAIN reminders
        /\ PopRecurring(e) \/ PopLast(e)
        /\ Send(reminders[e.id], e)
    /\ UNCHANGED <<nextId, job, apiKeys, now>>

(* The loop ends: nothing is due any more, or the occurrence popped last   *)
(* is one of a deleted reminder (`get_mut(&global_id)?`), even if others   *)
(* are due behind it; start_job_if_required then sees to those.            *)
RunEnd ==
    /\ running
    /\ \/ /\ \A e \in ordered : ~IsDue(e)
          /\ UNCHANGED ordered
       \/ \E e \in ordered :
            /\ IsFirst(e, ordered)
            /\ IsDue(e)
            /\ e.id \notin DOMAIN reminders
            /\ ordered' = ordered \ {e}
    /\ StartJobIfRequired(timerId, timers, ordered')
    /\ running' = FALSE
    /\ UNCHANGED <<reminders, perChat, nextId, apiKeys, inflight, sent, now>>

-----------------------------------------------------------------------------
(* Replies, upgrades and the passing of time *)

(* send_reminder resumes with a success, or with an error it only logs. *)
ReplyIgnored(m) ==
    /\ ~running
    /\ inflight' = inflight \ {m}
    /\ UNCHANGED <<store, job, apiKeys, sent, now>>

(* It resumes with a refusal, any other response: the reminder under the   *)
(* chat reminder id it was spawned with, if there is one, is deleted.      *)
ReplyRefused(m) ==
    /\ ~running
    /\ inflight' = inflight \ {m}
    /\ \/ DeleteReminder(m.chat, m.chatId)
       \/ /\ ~(m.chat \in DOMAIN perChat /\ m.chatId \in DOMAIN perChat[m.chat])
          /\ UNCHANGED store
    /\ UNCHANGED <<job, apiKeys, sent, now>>

(* Fault: post_upgrade does not start the job. *)
FaultyUpgradeNoTimer ==
    /\ ~running
    /\ timerId' = NoTimer
    /\ timers' = {}
    /\ inflight' = {}
    /\ UNCHANGED <<store, running, apiKeys, sent, now>>

(* An upgrade keeps the serialised state; the timers, TIMER_ID and the     *)
(* suspended calls are gone.  post_upgrade calls start_job_if_required.    *)
Upgrade ==
    /\ ~running
    /\ StartJobIfRequired(NoTimer, {}, ordered)
    /\ inflight' = {}
    /\ UNCHANGED <<store, running, apiKeys, sent, now>>

Tick ==
    /\ ~running
    /\ now < MaxTime
    /\ now' = now + 1
    /\ UNCHANGED <<store, job, apiKeys, inflight, sent>>

-----------------------------------------------------------------------------
Command ==
    \/ \E c \in Chats, due \in 0..MaxTime : RemindAt(c, due)
    \/ \E c \in Chats, schedule \in Schedules : RemindRecurring(c, schedule)
    \/ \E c \in Chats : RejectRecurring(c)
    \/ \E c \in Chats, i \in ChatIds : Delete(c, i)
    \/ \E scope \in Scopes, granted \in SUBSET Permissions : SyncApiKey(scope, granted)

Run == RunStart \/ RunPop \/ RunEnd

Reply == \E m \in inflight : ReplyIgnored(m) \/ ReplyRefused(m)

Next == Command \/ Run \/ Reply \/ Upgrade \/ Tick

Spec == Init /\ [][Next]_vars

(* The platform fires timers whose deadline has passed, finishes the       *)
(* messages it starts and answers every call; and time passes.  Commands   *)
(* and upgrades need not happen.                                           *)
FairSpec == Spec /\ WF_vars(Run) /\ WF_vars(Reply) /\ WF_vars(Tick)

-----------------------------------------------------------------------------
(* Invariants *)

(* The two indexes of the store agree, both ways: /list_reminders and      *)
(* /delete_reminder reach exactly the live reminders, and no two reminders *)
(* of a chat share a chat reminder id.                                     *)
IndexesAgree ==
    /\ \A id \in DOMAIN reminders :
        LET r == reminders[id] IN
        /\ r.chat \in DOMAIN perChat
        /\ r.chatId \in DOMAIN perChat[r.chat]
        /\ perChat[r.chat][r.chatId] = id
    /\ \A c \in DOMAIN perChat : \A i \in DOMAIN perChat[c] :
        /\ perChat[c][i] \in DOMAIN reminders
        /\ reminders[perChat[c][i]].chat = c
        /\ reminders[perChat[c][i]].chatId = i

(* Every live reminder waits in the queue, for one instant only, and no    *)
(* deleted reminder waits twice: nothing is forgotten between the pop of   *)
(* an occurrence and the insertion of the next.                            *)
WaitsOnce ==
    /\ \A id \in DOMAIN reminders : \E e \in ordered : e.id = id
    /\ \A e, f \in ordered : e.id = f.id => e = f
    /\ \A e \in ordered : e.id < nextId

(* Between messages the platform holds a timer exactly when the queue is   *)
(* not empty, TIMER_ID names it, it fires no later than the first          *)
(* occurrence is due (or at once), and not before any occurrence is due:   *)
(* through additions, deletions, upgrades and runs that end early.         *)
JobArmed ==
    IF running \/ ordered = {}
    THEN timerId = NoTimer /\ timers = {}
    ELSE /\ timerId # NoTimer
         /\ timers = {timerId}
         /\ \A e \in ordered : timerId <= Deadline(e.due)
         /\ \E e \in ordered : e.due <= timerId

(* No message is sent before its instant, and none is sent twice: what     *)
(* still waits of a reminder is later than all that was sent of it.        *)
SentOnceInTime ==
    \A s \in sent :
        /\ s.due <= now
        /\ s.id < nextId
        /\ \A e \in ordered : e.id = s.id => s.due < e.due

(* The limits hold of the reminders themselves, although `add` checks the  *)
(* chat's one against the index perChat.                                   *)
WithinLimits ==
    /\ Cardinality(DOMAIN reminders) <= MaxReminders
    /\ \A c \in Chats :
        Cardinality({id \in DOMAIN reminders : reminders[id].chat = c})
            <= MaxRemindersPerChat

(* The invariant of the bot: it is inductive. *)
IInv == TypeOK /\ IndexesAgree /\ WaitsOnce /\ JobArmed /\ SentOnceInTime

-----------------------------------------------------------------------------
(* Action properties *)

(* What the job takes from the queue is due; it is sent if the reminder is *)
(* live and a key allows it, and only a reminder with no later occurrence  *)
(* leaves the store.  Nothing but the job ever takes an occurrence.        *)
OccurrenceLeavesWhenDue ==
    [][\A e \in ordered \ ordered' :
        /\ running
        /\ e.due <= now
        /\ (e.id \in DOMAIN reminders /\ HasKey(apiKeys, reminders[e.id].chat, TextOnly))
            => e \in sent']_vars

(* The reply to a send deletes no other reminder than the one whose        *)
(* message it answers (OVERVIEW.md: the bot holds a record of the          *)
(* reminders and sends the messages at the given times).  The code         *)
(* identifies the reminder by a chat reminder id read before the await.    *)
ReplyDeletesOnlyItsOwn ==
    [][\A m \in inflight \ inflight' :
        DOMAIN reminders \ DOMAIN reminders' \subseteq {m.occurrence.id}]_vars

-----------------------------------------------------------------------------
(* Liveness *)

(* Every occurrence that is due is taken from the queue: a run that ends   *)
(* early at a deleted reminder delays the reminders behind it only.        *)
DueLeavesQueue ==
    \A id \in 0..(MaxAdds - 1), t \in 0..MaxTime :
        LET e == [due |-> t, id |-> id] IN
        (e \in ordered /\ t <= now) ~> (e \notin ordered)

(* A live reminder that is due in a chat for which the bot holds a key is  *)
(* sent, unless it is deleted or the key is replaced first.                *)
DueIsSent ==
    \A id \in 0..(MaxAdds - 1), t \in 0..MaxTime :
        LET e == [due |-> t, id |-> id] IN
        (e \in ordered /\ t <= now) ~>
            \/ e \in sent
            \/ id \notin DOMAIN reminders
            \/ ~HasKey(apiKeys, reminders[id].chat, TextOnly)
=============================================================================
