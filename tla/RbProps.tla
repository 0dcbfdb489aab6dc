------------------------------- MODULE RbProps -------------------------------
(***************************************************************************)
(* What the ring of module Rb guarantees, and what its documentation says  *)
(* of it.                                                                  *)
(***************************************************************************)
EXTENDS Rb

(* Every field stays in the range its C type and its use allow. *)
TypeOK ==
    /\ head \in Word /\ tail \in Word
    /\ cached_tail \in Word /\ cached_head \in Word
    /\ entries \in [0 .. capacity - 1 -> Word]
    /\ stamp \in [Slots -> Word]
    /\ slot \in [Slots -> Message] /\ out \in Message
    /\ pending_slot \in Slots \cup {RB_NO_PENDING} /\ pending_wanted \in Nat
    /\ consumer_slot \in Slots /\ consumer_active \in BOOLEAN
    /\ full_latch \in BOOLEAN /\ low_d_latch \in BOOLEAN /\ low_e_latch \in BOOLEAN
    /\ high_water \in Word
    /\ last_cb \in {"none", "on_full", "on_low_d"}
    /\ ppc \in {"idle", "acquired", "header", "ready", "published",
                "full", "on_full"}
    /\ cpc \in {"idle", "found", "holding", "read", "stamped", "low_d",
                "on_low_d", "low_e"}

(* The counters stay in the order cached_tail, tail, cached_head, head     *)
(* around the ring, the producer never believes in more than limit         *)
(* messages, and so neither does high_water: no cached counter ever        *)
(* overtakes the counter it is a copy of, across any number of wraps.      *)
CounterOrder ==
    /\ Sub(head, cached_tail) <= limit
    /\ Ordered(cached_tail, tail, head)
    /\ Ordered(tail, cached_head, head)
    /\ high_water <= limit

(* Positions published and not released; and those the producer has not    *)
(* seen released.                                                          *)
InFlight(p) == Sub(p, tail) < Sub(head, tail)
NotSeenReleased(p) == Sub(p, cached_tail) < Sub(head, cached_tail)

(* The producer owns its pending slot from rb_acquire to the head store. *)
ProducerOwns == ppc \in {"acquired", "header", "ready"}

(* No data race on a slot: when the producer may write its pending slot,   *)
(* it has acquired the release of every earlier message that used that     *)
(* slot, the consumer does not hold it, and what the consumer holds is a   *)
(* message whose publication the consumer has acquired.                    *)
SlotRaceFree ==
    /\ ProducerOwns =>
        /\ \A p \in Word : NotSeenReleased(p) => slot_index_for(p) # pending_slot
        /\ consumer_active => consumer_slot # pending_slot
    /\ consumer_active => cached_head # tail

(* Mode 1: the stamp of every message in flight is its position + 1, so    *)
(* the probe in rb_consume never misses, and every free slot is stamped    *)
(* with the position that will use it next.                                *)
LapStamps ==
    RB_PER_SLOT_LAP =>
        \A p \in Word : Sub(p, tail) < slots =>
            stamp[slot_index_for(p)] =
                IF p = tail /\ cpc = "stamped" THEN NextLap
                ELSE IF InFlight(p) \/ (p = head /\ ppc = "ready")
                THEN Inc(p) ELSE p

(* The messages in flight, oldest first, and the one the consumer has read. *)
Queue == [i \in 1 .. Sub(head, tail) |-> slot[EntryAt(Add(tail, i - 1))]]
Held == IF cpc = "read" THEN <<out>> ELSE <<>>

FIFO == INSTANCE BoundedFifo WITH q <- Queue, held <- Held

(* The ring is a bounded FIFO in both modes: nothing is lost, duplicated,  *)
(* reordered or altered between publish and release, and rb_publish_ex's   *)
(* head store and rb_release's tail store are the only steps that show.    *)
ImplementsFifo == FIFO!Spec

(* Every published message is released in the end. *)
PublishedIsReleased == \A p \in Word : InFlight(p) ~> ~ InFlight(p)

(* A latch set while the ring is full is cleared as the consumer drains it. *)
FullLatchReleased ==
    (full_latch /\ ppc = "idle" /\ Sub(head, tail) = limit) ~> ~ full_latch

-----------------------------------------------------------------------------
(* What the documentation says, where the code does something else.        *)

(* docs/TECHNICAL.md: "the same scratch slot must not back two live ring   *)
(* entries".  False when slots does not divide the range of the counters.  *)
OneSlotPerMessage ==
    \A p, r \in Word :
        InFlight(p) /\ InFlight(r) /\ p # r => EntryAt(p) # EntryAt(r)

(* docs/README.md: on_full "unlatches when the consumer brings the count   *)
(* below the low_d threshold".  With both threads between calls and the    *)
(* ring empty, the latch that rb_publish_ex sets would be clear.           *)
DrainedIsUnlatched ==
    (ppc = "idle" /\ cpc = "idle" /\ head = tail) => ~ full_latch

=============================================================================
