---------------------------- MODULE MessagePipe ----------------------------
(***************************************************************************)
(* What the Discord bot promises of the messages it accepts: while the     *)
(* pipe is open they are settled (sent on, refused or dropped) one by one, *)
(* in the order in which they were accepted, and each once; when it closes *)
(* those that wait are lost.                                               *)
(***************************************************************************)
EXTENDS Integers, Sequences

CONSTANTS
    Messages,
    Capacity       \* the number of messages that may wait to be settled

VARIABLES
    open,
    pending        \* the messages accepted and not settled

vars == <<open, pending>>

Init ==
    /\ open = TRUE
    /\ pending = <<>>

Accept(m) ==
    /\ open
    /\ Len(pending) < Capacity
    /\ \A i \in 1..Len(pending) : pending[i] # m
    /\ pending' = Append(pending, m)
    /\ UNCHANGED open

Settle ==
    /\ open
    /\ pending # <<>>
    /\ pending' = Tail(pending)
    /\ UNCHANGED open

Close ==
    /\ open
    /\ open' = FALSE
    /\ pending' = <<>>

Open ==
    /\ ~open
    /\ open' = TRUE
    /\ UNCHANGED pending

Next ==
    \/ \E m \in Messages : Accept(m)
    \/ Settle
    \/ Close
    \/ Open

Spec == Init /\ [][Next]_vars

FairSpec == Spec /\ WF_vars(Settle)
=============================================================================
