--------------------------- MODULE ReminderService ---------------------------
(***************************************************************************)
(* What a reminder service promises its users, whatever its data           *)
(* structures, timers and upgrades: it remembers each reminder it accepts  *)
(* until the reminder is cancelled or ends, and delivers each occurrence   *)
(* at most once and never early.                                           *)
(***************************************************************************)
EXTENDS Maps, Naturals

CONSTANTS
    Ids,         \* the names of reminders, never used twice
    Instants     \* when a reminder may be due

VARIABLES
    pending,     \* the reminders it holds: id -> instant of the next occurrence
    accepted,    \* the ids ever accepted
    delivered,   \* the occurrences delivered so far
    clock

vars == <<pending, accepted, delivered, clock>>

Init ==
    /\ pending = EmptyMap
    /\ accepted = {}
    /\ delivered = {}
    /\ clock = 0

(* A new reminder, for now or a later instant *)
Accept(id, due) ==
    /\ id \notin accepted
    /\ due >= clock
    /\ accepted' = accepted \cup {id}
    /\ pending' = Put(pending, id, due)
    /\ UNCHANGED <<delivered, clock>>

Cancel(id) ==
    /\ id \in DOMAIN pending
    /\ pending' = Without(pending, id)
    /\ UNCHANGED <<accepted, delivered, clock>>

(* An occurrence is due: it is delivered, or skipped when the service may  *)
(* not post to the chat; the reminder ends or waits for a later instant.   *)
Fire(id) ==
    /\ id \in DOMAIN pending
    /\ pending[id] <= clock
    /\ \/ delivered' = delivered \cup {[due |-> pending[id], id |-> id]}
       \/ UNCHANGED delivered
    /\ \/ pending' = Without(pending, id)
       \/ \E next \in Instants : next > clock /\ pending' = Put(pending, id, next)
    /\ UNCHANGED <<accepted, clock>>

Tick ==
    /\ clock' = clock + 1
    /\ UNCHANGED <<pending, accepted, delivered>>

Next ==
    \/ \E id \in Ids : (\E due \in Instants : Accept(id, due)) \/ Cancel(id) \/ Fire(id)
    \/ Tick

Spec == Init /\ [][Next]_vars

(* No reminder that is due waits for ever. *)
FairSpec == Spec /\ \A id \in Ids : WF_vars(Fire(id))
=============================================================================
