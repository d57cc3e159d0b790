---- MODULE CommandFifo ----
(***************************************************************************)
(* What the firmware promises about received commands, with no ring, no   *)
(* heap and no connection: a bounded first-in first-out queue between the  *)
(* lwIP receive callback and the main loop.  A command that does not get   *)
(* in is lost; one that does is taken exactly once, in order of arrival.   *)
(***************************************************************************)
EXTENDS Naturals, Sequences

CONSTANTS
    Commands,   \* what may be queued
    Capacity    \* how many commands the queue holds

VARIABLES
    pending,    \* the commands waiting, oldest first
    current     \* the command the main loop took last

Put(c) ==
    /\ Len(pending) < Capacity
    /\ pending' = Append(pending, c)
    /\ UNCHANGED current

Take ==
    /\ pending # <<>>
    /\ current' = Head(pending)
    /\ pending' = Tail(pending)

Init == pending = <<>> /\ current \in Commands

Next == Take \/ \E c \in Commands : Put(c)

Spec == Init /\ [][Next]_<<pending, current>>
====
