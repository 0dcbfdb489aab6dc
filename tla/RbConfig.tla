------------------------------ MODULE RbConfig ------------------------------
(***************************************************************************)
(* The life cycle of a ring: rb_config_t and its setters, rb_init with its *)
(* defaults, clamping and checks, the runtime setters and rb_deinit, while *)
(* the ring's threads run.  Of the ring itself only the number of messages *)
(* is kept, with the acquire and the publish of a message as two steps;    *)
(* module Rb has the rest.  rb_set_limit tests the count and stores the    *)
(* limit in two steps.  The oversize policy, the callbacks and the stack   *)
(* sizes are stored unchecked and constrain nothing: they are left out.    *)
(***************************************************************************)
EXTENDS RbArith

CONSTANTS
    SizeT,              \* number of values of a size_t
    Align,              \* alignment of a slot
    RB_CAPACITY, RB_NUM_SLOTS, RB_SLOT_SIZE, RB_SLOT_HDR_SIZE,
    Capacities, SlotCounts, SlotSizes, Limits, Percents, ScratchSizes

ASSUME ConfigAssumption ==
    /\ SizeT \in Nat /\ SizeT >= W /\ Align \in Nat \ {0}
    /\ {RB_CAPACITY, RB_NUM_SLOTS, RB_SLOT_SIZE, RB_SLOT_HDR_SIZE} \subseteq Word \ {0}
    /\ Capacities \cup SlotCounts \cup SlotSizes \cup Limits \cup Percents \subseteq Word
    /\ ScratchSizes \subseteq 0 .. SizeT - 1

VARIABLES
    cfg,                \* the caller's rb_config_t
    rb,                 \* the control block; scratch_size = 0 means not initialised
    count,              \* messages in the ring
    pending,            \* the producer has acquired a slot
    new_limit           \* rb_set_limit's argument once it has passed its tests, or 0

vars == <<cfg, rb, count, pending, new_limit>>

Ready == rb.scratch_size # 0

(* RB_IS_POW2 *)
IsPow2(x) == \E k \in 0 .. x : x = 2 ^ k

(* A field of zero takes the compile-time default. *)
Default(v, d) == IF v # 0 THEN v ELSE d

(* RB_ALIGN_UP in size_t, then the cast to uint32_t. *)
slot_stride_for(slot_size) ==
    (((((slot_size + Align - 1) % SizeT) \div Align) * Align) % W)

(* Mutant: the limit is not clamped to the number of slots. *)
ClampedToCapacity(limit, capacity, slots) ==
    IF limit > capacity THEN capacity ELSE limit

(* The limit is at most the capacity and the number of slots. *)
Clamped(limit, capacity, slots) ==
    LET l == IF limit > capacity THEN capacity ELSE limit
    IN  IF l > slots THEN slots ELSE l

(* The control block rb_init would leave. *)
ControlBlock(c, scratch_size) ==
    LET capacity == Default(c.capacity, RB_CAPACITY)
        slots == Default(c.slots, RB_NUM_SLOTS)
        slot_size == Default(c.slot_size, RB_SLOT_SIZE)
    IN  [capacity |-> capacity, slots |-> slots, slot_size |-> slot_size,
         limit |-> Clamped(Default(c.limit, capacity), capacity, slots),
         stride |-> slot_stride_for(slot_size),
         low_d |-> c.low_d, low_e |-> c.low_e,
         scratch_size |-> scratch_size]

(* Mutant: the size test counts slots of slot_size bytes. *)
NeededUnpadded(b) == (b.slots * b.slot_size) % SizeT

Needed(b) == (b.slots * b.stride) % SizeT

(* rb_init's checks, alignment of the two buffers apart. *)
Accepts(b) ==
    /\ IsPow2(b.capacity) /\ b.capacity >= 2
    /\ b.slot_size > RB_SLOT_HDR_SIZE
    /\ b.low_d <= 100 /\ b.low_e <= 100 /\ b.low_e <= b.low_d
    /\ b.scratch_size >= Needed(b)

rb_config_defaults ==
    [capacity |-> RB_CAPACITY, slots |-> RB_NUM_SLOTS, slot_size |-> RB_SLOT_SIZE,
     limit |-> 0, low_d |-> 25, low_e |-> 10]

Init ==
    /\ cfg = rb_config_defaults
    /\ rb = ControlBlock(cfg, 0)
    /\ count = 0 /\ pending = FALSE /\ new_limit = 0

-----------------------------------------------------------------------------
(* The rb_config_set_* functions store a field, unchecked. *)
rb_config_set(field, v) ==
    /\ cfg' = [cfg EXCEPT ![field] = v]
    /\ UNCHANGED <<rb, count, pending, new_limit>>

(* rb_init of memory no thread is using; RB_ERR_INVAL changes nothing. *)
rb_init(scratch_size) ==
    /\ ~ Ready
    /\ Accepts(ControlBlock(cfg, scratch_size))
    /\ rb' = ControlBlock(cfg, scratch_size)
    /\ count' = 0 /\ pending' = FALSE
    /\ UNCHANGED <<cfg, new_limit>>

(* The ring is torn down once its threads are out of it. *)
rb_deinit ==
    /\ Ready /\ new_limit = 0
    /\ rb' = [rb EXCEPT !.scratch_size = 0]
    /\ pending' = FALSE
    /\ UNCHANGED <<cfg, count, new_limit>>

(* Mutant: only the capacity bounds the new limit. *)
SetLimitTestCapacity(limit) ==
    /\ Ready /\ new_limit = 0
    /\ limit # 0 /\ limit <= rb.capacity /\ count = 0
    /\ new_limit' = limit
    /\ UNCHANGED <<cfg, rb, count, pending>>

(* rb_set_limit: the tests, rb_count last, ... *)
SetLimitTest(limit) ==
    /\ Ready /\ new_limit = 0
    /\ limit # 0 /\ limit <= rb.capacity /\ limit <= rb.slots /\ count = 0
    /\ new_limit' = limit
    /\ UNCHANGED <<cfg, rb, count, pending>>

(* ... then the store. *)
SetLimitStore ==
    /\ new_limit # 0
    /\ rb' = [rb EXCEPT !.limit = new_limit]
    /\ new_limit' = 0
    /\ UNCHANGED <<cfg, count, pending>>

(* rb_set_low_d and rb_set_low_e do not compare the two marks. *)
rb_set_low(field, percent) ==
    /\ Ready /\ percent <= 100
    /\ rb' = [rb EXCEPT ![field] = percent]
    /\ UNCHANGED <<cfg, count, pending, new_limit>>

(* The producer and the consumer. *)
rb_acquire ==
    /\ Ready /\ ~ pending /\ count < rb.limit
    /\ pending' = TRUE
    /\ UNCHANGED <<cfg, rb, count, new_limit>>

rb_publish ==
    /\ Ready /\ pending
    /\ count' = count + 1 /\ pending' = FALSE
    /\ UNCHANGED <<cfg, rb, new_limit>>

rb_release ==
    /\ Ready /\ count > 0
    /\ count' = count - 1
    /\ UNCHANGED <<cfg, rb, pending, new_limit>>

Configure ==
    \/ \E v \in Capacities : rb_config_set("capacity", v)
    \/ \E v \in SlotCounts : rb_config_set("slots", v)
    \/ \E v \in SlotSizes : rb_config_set("slot_size", v)
    \/ \E v \in Limits : rb_config_set("limit", v)
    \/ \E v \in Percents, f \in {"low_d", "low_e"} : rb_config_set(f, v)

Reconfigure ==
    \/ \E v \in Limits : SetLimitTest(v)
    \/ SetLimitStore
    \/ \E v \in Percents, f \in {"low_d", "low_e"} : rb_set_low(f, v)

(* The caller fills in a configuration before rb_init. *)
Next ==
    \/ ~ Ready /\ Configure
    \/ \E s \in ScratchSizes : rb_init(s)
    \/ rb_deinit
    \/ Reconfigure
    \/ rb_acquire \/ rb_publish \/ rb_release

Spec == Init /\ [][Next]_vars

-----------------------------------------------------------------------------
(* Whatever the configuration, an initialised ring satisfies what module   *)
(* Rb assumes of its capacity, slots and limit, and keeps it through the   *)
(* runtime setters.                                                        *)
GeometryHolds ==
    Ready =>
        /\ IsPow2(rb.capacity) /\ rb.capacity >= 2 /\ rb.slots >= 1
        /\ rb.limit >= 1 /\ rb.limit <= rb.slots /\ rb.limit <= rb.capacity
        /\ rb.low_d <= 100 /\ rb.low_e <= 100

(* Even when rb_set_limit races with the producer, the ring never holds    *)
(* more messages than it has slots or entries, counting the acquired one.  *)
CountFits ==
    Ready => count + (IF pending THEN 1 ELSE 0) <= rb.slots
             /\ count + (IF pending THEN 1 ELSE 0) <= rb.capacity

(* docs/API.md: "scratchpad must be at least slots * stride bytes".  The   *)
(* slots of an initialised ring lie inside the scratchpad, apart.          *)
SlotsFit ==
    Ready => rb.stride >= rb.slot_size /\ rb.slots * rb.stride <= rb.scratch_size

=============================================================================
