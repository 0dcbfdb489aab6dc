--------------------------------- MODULE Rb ---------------------------------
(***************************************************************************)
(* The ring of src/rb.c between one producer and one consumer thread.      *)
(*                                                                         *)
(* Each thread is a program counter; a step is one access to memory the    *)
(* other thread also touches, together with the thread-private work around *)
(* it.  RB_PER_SLOT_LAP is the compile-time switch of the same name: FALSE *)
(* is the ring of references (head, tail, entries[]), TRUE the per-slot    *)
(* sequence (notify_seq, consumer_pos and a stamp in every slot, which     *)
(* play the parts of head and tail and share their variables here).        *)
(*                                                                         *)
(* Memory model: an acquire load of the other side's counter may return    *)
(* any value stored since the one this thread saw last (StaleReads), and   *)
(* nothing a thread has not acquired is known to have happened.            *)
(***************************************************************************)
EXTENDS RbArith, Sequences

CONSTANTS
    RB_PER_SLOT_LAP,    \* the mode
    capacity,           \* entries[] length
    slots,              \* scratch slots
    limit,              \* messages in flight at most, after rb_init's clamping
    cap,                \* payload bytes of a slot: slot_size - RB_SLOT_HDR_SIZE
    low_d, low_e,       \* low-water marks, percent of limit
    drop_oversize,      \* oversize_policy = RB_OVERSIZE_DROP
    Data,               \* payload contents
    WantedLens,         \* lengths passed to rb_acquire
    WrittenLens,        \* lengths passed to rb_publish
    StaleReads          \* whether an acquire load may return an older value

ASSUME GeometryAssumption ==
    /\ RB_PER_SLOT_LAP \in BOOLEAN
    /\ capacity \in Nat \ {0} /\ capacity < W /\ W % capacity = 0
    /\ slots \in Nat \ {0} /\ slots < W
    /\ limit \in Nat \ {0} /\ limit <= slots /\ limit <= capacity
    /\ low_d \in 0 .. 100 /\ low_e \in 0 .. low_d

ASSUME MessageAssumption ==
    /\ cap \in Nat \ {0}
    /\ Data # {}
    /\ WantedLens \subseteq Nat /\ WrittenLens \subseteq Nat
    /\ drop_oversize \in BOOLEAN /\ StaleReads \in BOOLEAN

Slots == 0 .. slots - 1
RB_NO_PENDING == W - 1

(* What a slot holds: payload and header (length, truncated bit). *)
Message == [data : Data, len : 0 .. cap, truncated : BOOLEAN]

VARIABLES
    head, tail,                             \* shared counters
    entries,                                \* mode 0: slot index per ring entry
    stamp,                                  \* mode 1: sequence stamp per slot
    slot,                                   \* payload and header per slot
    cached_tail, pending_slot, pending_wanted, high_water,      \* producer's
    cached_head, consumer_active, consumer_slot,                \* consumer's
    full_latch, low_d_latch, low_e_latch,   \* full_latch is shared
    last_cb,                                \* last of on_full, on_low_d called
    out,                                    \* what the consumer read of its slot
    ppc, cpc                                \* where each thread is

storage == <<entries, stamp, slot>>
pending == <<pending_slot, pending_wanted>>
taken == <<consumer_active, consumer_slot, out>>
marks == <<full_latch, low_d_latch, low_e_latch, last_cb>>
producer == <<cached_tail, pending, high_water, ppc>>
consumer == <<cached_head, taken, cpc>>
vars == <<head, tail, storage, producer, consumer, marks>>

(* Mutant: the index mask is one bit short. *)
slot_index_bad_mask(pos) == IF slots = 1 THEN 0 ELSE pos % (slots - 1)

(* slot_index_for: the code masks instead of dividing for a power of two. *)
slot_index_for(pos) == pos % slots

(* Values an acquire load may return: stored at or after the last one seen. *)
Visible(current, seen) ==
    IF StaleReads THEN {v \in Word : Sub(v, seen) <= Sub(current, seen)}
    ELSE {current}

(* rb_init's result; entries[] and the scratch are left as they were, here *)
(* either a valid index or the first invalid one in every entry.           *)
Init ==
    /\ head = 0 /\ tail = 0 /\ cached_tail = 0 /\ cached_head = 0
    /\ \E e \in {0, slots} : entries = [k \in 0 .. capacity - 1 |-> e]
    /\ stamp = [i \in Slots |-> i]
    /\ \E d \in Data :
        /\ out = [data |-> d, len |-> 0, truncated |-> FALSE]
        /\ slot = [i \in Slots |-> out]
    /\ pending_slot = RB_NO_PENDING /\ pending_wanted = 0
    /\ consumer_active = FALSE /\ consumer_slot = 0 /\ high_water = 0
    /\ full_latch = FALSE /\ low_d_latch = FALSE /\ low_e_latch = FALSE
    /\ last_cb = "none"
    /\ ppc = "idle" /\ cpc = "idle"

-----------------------------------------------------------------------------
(* The producer thread.                                                    *)

(* Mutant: the limit is tested one message late. *)
IsFullLate(count) == count > limit

IsFull(count) == count >= limit

(* rb_acquire: the count from the cached tail, reloaded when it says full. *)
(* FULL and OVERSIZE take no slot but keep the reloaded tail.              *)
rb_acquire(wanted) ==
    /\ ppc = "idle"
    /\ \E t \in IF IsFull(Sub(head, cached_tail)) THEN Visible(tail, cached_tail)
                ELSE {cached_tail} :
        /\ cached_tail' = t
        /\ IF IsFull(Sub(head, t)) \/ (wanted > cap /\ drop_oversize)
           THEN UNCHANGED <<pending, ppc>>
           ELSE /\ pending_slot' = slot_index_for(head)
                /\ pending_wanted' = wanted
                /\ ppc' = "acquired"
    /\ UNCHANGED <<head, tail, storage, high_water, consumer, marks>>

(* The caller fills the slot through the pointer rb_acquire returned. *)
WritePayload(d) ==
    /\ ppc = "acquired"
    /\ slot' = [slot EXCEPT ![pending_slot].data = d]
    /\ UNCHANGED <<head, tail, entries, stamp, producer, consumer, marks>>

rb_abort ==
    /\ ppc = "acquired"
    /\ pending_slot' = RB_NO_PENDING /\ pending_wanted' = 0
    /\ ppc' = "idle"
    /\ UNCHANGED <<head, tail, storage, cached_tail, high_water, consumer, marks>>

(* Mutant: the length goes into the header as the caller gave it. *)
Unclamped(len) == len

Clamp(len) == IF len > cap THEN cap ELSE len

(* rb_publish_ex: write the header, ... *)
PublishHeader(written, truncated) ==
    /\ ppc = "acquired"
    /\ slot' = [slot EXCEPT
          ![pending_slot].len = Clamp(written),
          ![pending_slot].truncated =
              truncated \/ written > cap \/ pending_wanted > cap]
    /\ ppc' = "header"
    /\ UNCHANGED <<head, tail, entries, stamp, cached_tail, pending, high_water,
                   consumer, marks>>

(* Mutant: the entry is indexed by slot, not by position in the ring. *)
PublishEntryBySlot ==
    /\ ppc = "header"
    /\ entries' = [entries EXCEPT ![pending_slot % capacity] = pending_slot]
    /\ ppc' = "ready"
    /\ UNCHANGED <<head, tail, stamp, slot, cached_tail, pending, high_water,
                   consumer, marks>>

(* ... store the reference (mode 0) or stamp the slot (mode 1), ... *)
PublishEntry ==
    /\ ppc = "header"
    /\ IF RB_PER_SLOT_LAP
       THEN /\ stamp' = [stamp EXCEPT ![pending_slot] = Inc(head)]
            /\ UNCHANGED entries
       ELSE /\ entries' = [entries EXCEPT ![head % capacity] = pending_slot]
            /\ UNCHANGED stamp
    /\ ppc' = "ready"
    /\ UNCHANGED <<head, tail, slot, cached_tail, pending, high_water, consumer,
                   marks>>

(* ... release-store the new head, ... *)
PublishHead ==
    /\ ppc = "ready"
    /\ head' = Inc(head)
    /\ ppc' = "published"
    /\ UNCHANGED <<tail, storage, cached_tail, pending, high_water, consumer, marks>>

(* ... drop the pending slot, reload tail, count, update high_water, ... *)
PublishCount ==
    /\ ppc = "published"
    /\ pending_slot' = RB_NO_PENDING /\ pending_wanted' = 0
    /\ \E t \in Visible(tail, cached_tail) :
        /\ cached_tail' = t
        /\ high_water' = IF Sub(head, t) > high_water THEN Sub(head, t) ELSE high_water
        /\ ppc' = IF IsFull(Sub(head, t)) THEN "full" ELSE "idle"
    /\ UNCHANGED <<head, tail, storage, consumer, marks>>

(* ... set the full latch if it is clear, ... *)
PublishLatch ==
    /\ ppc = "full"
    /\ full_latch' = TRUE
    /\ ppc' = IF full_latch THEN "idle" ELSE "on_full"
    /\ UNCHANGED <<head, tail, storage, cached_tail, pending, high_water, consumer,
                   low_d_latch, low_e_latch, last_cb>>

(* ... and call on_full. *)
OnFull ==
    /\ ppc = "on_full"
    /\ last_cb' = "on_full"
    /\ ppc' = "idle"
    /\ UNCHANGED <<head, tail, storage, cached_tail, pending, high_water, consumer,
                   full_latch, low_d_latch, low_e_latch>>

Producer ==
    \/ \E wanted \in WantedLens : rb_acquire(wanted)
    \/ \E d \in Data : WritePayload(d)
    \/ rb_abort
    \/ \E written \in WrittenLens, truncated \in BOOLEAN :
          PublishHeader(written, truncated)
    \/ PublishEntry \/ PublishHead \/ PublishCount \/ PublishLatch \/ OnFull

-----------------------------------------------------------------------------
(* The consumer thread.                                                    *)

(* Mutant: the cached head is never refreshed. *)
HeadNotReloaded == {cached_head}

(* rb_consume reloads head only when the cached one says empty. *)
HeadSeen ==
    IF tail = cached_head THEN Visible(head, cached_head) ELSE {cached_head}

(* rb_consume up to the emptiness test: RB_ERR_EMPTY, or a message is there. *)
ConsumeHead ==
    /\ cpc = "idle"
    /\ \E h \in HeadSeen :
        /\ cached_head' = h
        /\ cpc' = IF h = tail THEN "idle" ELSE "found"
    /\ UNCHANGED <<head, tail, storage, producer, taken, marks>>

(* The slot a position is in: its entry's, or its own in mode 1. *)
EntryAt(pos) ==
    IF RB_PER_SLOT_LAP THEN slot_index_for(pos) ELSE entries[pos % capacity]

(* In mode 1 a stamp other than tail + 1 only makes rb_consume reload head. *)
StampMissed == RB_PER_SLOT_LAP /\ stamp[slot_index_for(tail)] # Inc(tail)

(* The rest of rb_consume: take the slot and read its header.  An entry    *)
(* that is no slot index is RB_ERR_INVAL.                                  *)
ConsumeSlot ==
    /\ cpc = "found"
    /\ \E h \in IF StampMissed THEN Visible(head, cached_head) ELSE {cached_head} :
        /\ cached_head' = h
        /\ IF h = tail \/ EntryAt(tail) >= slots
           THEN /\ cpc' = "idle"
                /\ UNCHANGED taken
           ELSE /\ consumer_active' = TRUE
                /\ consumer_slot' = EntryAt(tail)
                /\ out' = [out EXCEPT !.len = slot[EntryAt(tail)].len,
                                      !.truncated = slot[EntryAt(tail)].truncated]
                /\ cpc' = "holding"
    /\ UNCHANGED <<head, tail, storage, producer, marks>>

(* The caller reads the payload through the pointer rb_consume returned;   *)
(* it may also release the slot unread.                                    *)
ReadPayload ==
    /\ cpc = "holding"
    /\ out' = [out EXCEPT !.data = slot[consumer_slot].data]
    /\ cpc' = "read"
    /\ UNCHANGED <<head, tail, storage, producer, cached_head, consumer_active,
                   consumer_slot, marks>>

(* Mutant: the slot is handed to the next position, not the next lap. *)
NextLapOffByLap == Inc(tail)

(* The position that will use the slot of position tail next. *)
NextLap == Add(tail, slots)

(* rb_release: in mode 1 the recycle stamp comes first, ... *)
ReleaseStamp ==
    /\ cpc \in {"holding", "read"} /\ RB_PER_SLOT_LAP
    /\ stamp' = [stamp EXCEPT ![consumer_slot] = NextLap]
    /\ cpc' = "stamped"
    /\ UNCHANGED <<head, tail, entries, slot, producer, cached_head, taken, marks>>

(* Mutant: the whole snapshot is released with its first message. *)
ReleaseSnapshot ==
    /\ cpc \in IF RB_PER_SLOT_LAP THEN {"stamped"} ELSE {"holding", "read"}
    /\ tail' = cached_head
    /\ consumer_active' = FALSE
    /\ cpc' = "low_d"
    /\ UNCHANGED <<head, storage, producer, cached_head, consumer_slot, out, marks>>

(* ... then tail is release-stored, ... *)
ReleaseTail ==
    /\ cpc \in IF RB_PER_SLOT_LAP THEN {"stamped"} ELSE {"holding", "read"}
    /\ tail' = Inc(tail)
    /\ consumer_active' = FALSE
    /\ cpc' = "low_d"
    /\ UNCHANGED <<head, storage, producer, cached_head, consumer_slot, out, marks>>

(* ... and the marks are compared with the counts before and after it,     *)
(* both taken from the cached head.                                        *)
NewCount == Sub(cached_head, tail)

(* Mutant: the count before the release is the count after it. *)
OldCountNotOld == NewCount

OldCount == Inc(NewCount)

CrossesDown(percent) ==
    ~ below_low(OldCount, limit, percent) /\ below_low(NewCount, limit, percent)
CrossesUp(percent) ==
    below_low(OldCount, limit, percent) /\ ~ below_low(NewCount, limit, percent)

ReleaseLowD ==
    /\ cpc = "low_d"
    /\ low_d_latch' = (low_d_latch \/ CrossesDown(low_d))
    /\ full_latch' = (full_latch /\ ~ CrossesDown(low_d) /\ ~ CrossesUp(low_d))
    /\ cpc' = IF CrossesDown(low_d) THEN "on_low_d" ELSE "low_e"
    /\ UNCHANGED <<head, tail, storage, producer, cached_head, taken, low_e_latch,
                   last_cb>>

OnLowD ==
    /\ cpc = "on_low_d"
    /\ last_cb' = "on_low_d"
    /\ cpc' = "low_e"
    /\ UNCHANGED <<head, tail, storage, producer, cached_head, taken, full_latch,
                   low_d_latch, low_e_latch>>

ReleaseLowE ==
    /\ cpc = "low_e"
    /\ low_e_latch' = ((low_e_latch \/ CrossesDown(low_e)) /\ ~ CrossesUp(low_e))
    /\ cpc' = "idle"
    /\ UNCHANGED <<head, tail, storage, producer, cached_head, taken, full_latch,
                   low_d_latch, last_cb>>

Consumer ==
    \/ ConsumeHead \/ ConsumeSlot \/ ReadPayload
    \/ ReleaseStamp \/ ReleaseTail \/ ReleaseLowD \/ OnLowD \/ ReleaseLowE

Next == Producer \/ Consumer

Spec == Init /\ [][Next]_vars

(* Both threads keep running: a call once begun is finished, and the       *)
(* consumer keeps calling rb_consume and rb_release.                       *)
FairSpec == Spec /\ WF_vars(Producer) /\ WF_vars(Consumer)

=============================================================================
