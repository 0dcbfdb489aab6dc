---------------------------- MODULE BoundedFifo ----------------------------
(***************************************************************************)
(* What the ring promises its two threads: a first-in first-out queue of   *)
(* at most limit messages.  The consumer sees the oldest message, unchanged *)
(* for as long as it holds it, and removes only that one.                  *)
(***************************************************************************)
EXTENDS Naturals, Sequences

CONSTANTS limit, Message

VARIABLES
    q,          \* the messages published and not yet released, oldest first
    held        \* <<>>, or <<m>> while the consumer has read m

Init == q = <<>> /\ held = <<>>

Publish(m) ==
    /\ Len(q) < limit
    /\ q' = Append(q, m)
    /\ UNCHANGED held

Read ==
    /\ held = <<>> /\ q # <<>>
    /\ held' = <<Head(q)>>
    /\ UNCHANGED q

(* The consumer may put the message down and look at it again, ... *)
PutDown ==
    /\ held # <<>>
    /\ held' = <<>>
    /\ UNCHANGED q

(* ... and remove it whether it looked or not. *)
Release ==
    /\ q # <<>>
    /\ q' = Tail(q)
    /\ held' = <<>>

Next == (\E m \in Message : Publish(m)) \/ Read \/ PutDown \/ Release

Spec == Init /\ [][Next]_<<q, held>>

=============================================================================
