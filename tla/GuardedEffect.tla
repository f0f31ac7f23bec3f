---------------------------- MODULE GuardedEffect ----------------------------
(***************************************************************************)
(* What the resident promises about the outside world, told without        *)
(* checkpoints, statuses or restarts: a movement of an event is sent only  *)
(* when every earlier movement of that event was given free for            *)
(* repetition, never twice, and never after the verdict of the event.      *)
(***************************************************************************)
CONSTANTS Events, Attempts

VARIABLES
    moved,     \* by event: the movements that were sent
    free,      \* the movements that stand in nobody's way any more
    closed     \* the events whose verdict is published

vars == <<moved, free, closed>>

Init ==
    /\ moved = [e \in Events |-> {}]
    /\ free = {}
    /\ closed = {}

(* The movement leaves the body.                                           *)
Send(e, a) ==
    /\ e \notin closed
    /\ moved[e] \subseteq free
    /\ \A f \in Events : a \notin moved[f]
    /\ moved' = [moved EXCEPT ![e] = @ \cup {a}]
    /\ UNCHANGED <<free, closed>>

(* A movement of an open event is settled as repeatable.                   *)
Permit(e, a) ==
    /\ e \notin closed
    /\ a \in moved[e] \ free
    /\ free' = free \cup {a}
    /\ UNCHANGED <<moved, closed>>

(* The verdict is published.                                               *)
Close(e) ==
    /\ e \notin closed
    /\ closed' = closed \cup {e}
    /\ UNCHANGED <<moved, free>>

Next ==
    \E e \in Events :
        \/ Close(e)
        \/ \E a \in Attempts : Send(e, a) \/ Permit(e, a)

Spec == Init /\ [][Next]_vars
=============================================================================
