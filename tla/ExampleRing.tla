---------------------------- MODULE ExampleRing ----------------------------
(***************************************************************************)
(* The ring as the example programs see it: the calls of rb.c and their    *)
(* results.  Module Rb shows that a ring is a bounded queue, so its        *)
(* messages are one here.  What a queue does not have is kept: a ring that *)
(* is not initialised yet, or no longer, and the two marks that make a     *)
(* second rb_acquire or rb_consume fail.                                   *)
(***************************************************************************)
EXTENDS Integers, Sequences

CONSTANTS
    limit,              \* of the ring
    Total               \* bound: messages a program tries to send

VARIABLES
    program,            \* the example that runs
    drop_mode,          \* -m drop
    capacity_set,       \* rb->capacity is stored
    live,               \* rb->scratch_size is not 0
    q,                  \* messages published and not released, oldest first
    pending,            \* pending_slot # RB_NO_PENDING
    active,             \* consumer_active
    wpc, seq, dropped,  \* the sending side: next number, messages given up
    rpc, received       \* the receiving side

ring == <<capacity_set, live, q, pending, active>>
sender == <<wpc, seq, dropped>>
shared == <<program, drop_mode, ring, sender, rpc, received>>

(* The ring is initialised, and empty, or it is not. *)
RingIs(initialised) ==
    /\ capacity_set = initialised /\ live = initialised
    /\ q = <<>> /\ pending = FALSE /\ active = FALSE

(* rb_acquire: RB_OK, RB_ERR_FULL, or RB_ERR_NOT_INIT or RB_ERR_INVAL. *)
acquire_refused == ~ live \/ pending
acquire_full == ~ acquire_refused /\ Len(q) >= limit
rb_acquire ==
    /\ ~ acquire_refused /\ ~ acquire_full
    /\ pending' = TRUE
    /\ UNCHANGED <<capacity_set, live, q, active>>

(* rb_publish; the programs do not look at its result. *)
rb_publish(m) ==
    /\ q' = IF live /\ pending THEN Append(q, m) ELSE q
    /\ pending' = (pending /\ ~ live)
    /\ UNCHANGED <<capacity_set, live, active>>

rb_abort ==
    /\ pending' = (pending /\ ~ live)
    /\ UNCHANGED <<capacity_set, live, q, active>>

(* rb_consume: RB_OK, RB_ERR_EMPTY, or RB_ERR_NOT_INIT or RB_ERR_INVAL. *)
consume_refused == ~ live \/ active
consume_empty == ~ consume_refused /\ q = <<>>
rb_consume ==
    /\ ~ consume_refused /\ q # <<>>
    /\ active' = TRUE
    /\ UNCHANGED <<capacity_set, live, q, pending>>

(* rb_release; the programs do not look at its result. *)
rb_release ==
    /\ q' = IF live /\ active THEN Tail(q) ELSE q
    /\ active' = (active /\ ~ live)
    /\ UNCHANGED <<capacity_set, live, pending>>

(* capacity, head and tail keep their values. *)
rb_deinit ==
    /\ live' = FALSE /\ pending' = FALSE /\ active' = FALSE
    /\ UNCHANGED <<capacity_set, q>>

=============================================================================
