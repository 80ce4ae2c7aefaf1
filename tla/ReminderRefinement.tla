------------------------- MODULE ReminderRefinement -------------------------
(***************************************************************************)
(* The reminder bot implements the reminder service.  The service's        *)
(* pending instant of a reminder is that of its occurrence in the queue.   *)
(***************************************************************************)
EXTENDS ReminderBot

PendingDue(id) == (CHOOSE e \in ordered : e.id = id).due

Service == INSTANCE ReminderService WITH
    Ids <- 0..(MaxAdds - 1),
    Instants <- 0..MaxTime \cup UNION Schedules,
    pending <- [id \in DOMAIN reminders |-> PendingDue(id)],
    accepted <- 0..(nextId - 1),
    delivered <- sent,
    clock <- now

(* The commands, the job, the replies and the upgrades of the bot are      *)
(* steps of the service or change nothing it promises.                     *)
ImplementsService == Service!Spec

(* ... and no reminder that is due waits for ever. *)
ImplementsFairService == Service!FairSpec
=============================================================================
