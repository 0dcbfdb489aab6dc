----------------------------- MODULE RbAligned -----------------------------
(***************************************************************************)
(* Rings whose number of slots divides the range of the counters: every    *)
(* power of two, among which the default 64, and every geometry of the     *)
(* tests.  For them the inductive invariant behind RbProps is stated here. *)
(***************************************************************************)
EXTENDS RbProps

ASSUME SlotsDivideWord == W % slots = 0

(* What each thread's private fields say about the shared state. *)
ProducerInv ==
    /\ ProducerOwns =>
        /\ pending_slot = slot_index_for(head)
        /\ Sub(head, cached_tail) < limit

ConsumerInv ==
    /\ consumer_active <=> cpc \in {"holding", "read", "stamped"}
    /\ cpc = "found" \/ consumer_active => cached_head # tail
    /\ consumer_active => consumer_slot = slot_index_for(tail)
    /\ cpc = "stamped" => RB_PER_SLOT_LAP

(* Mode 0: the entry of every message in flight still names its slot. *)
EntriesInv ==
    ~ RB_PER_SLOT_LAP =>
        /\ \A p \in Word : InFlight(p) => entries[p % capacity] = slot_index_for(p)
        /\ ppc = "ready" => entries[head % capacity] = slot_index_for(head)

(* The conjunction is inductive: each part is preserved by every step that *)
(* starts where all of them hold.  It says what rb.c relies on between     *)
(* calls: cached counters lag, owned slots are the ones the counters name. *)
RingInv == TypeOK /\ CounterOrder /\ ProducerInv /\ ConsumerInv /\ EntriesInv

=============================================================================
