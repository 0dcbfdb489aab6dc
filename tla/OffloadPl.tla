------------------------------ MODULE OffloadPl ------------------------------
(***************************************************************************)
(* rb_offload_pl of hdl/rb_offload_pl.v: the registers behind an AXI-lite  *)
(* port and the pipeline that works on a slot of ring A when the doorbell  *)
(* is rung.  A step is one edge of aclk.                                   *)
(*                                                                         *)
(* Two always blocks, the port's and the pipeline's, assign some of the    *)
(* same registers.  When both do at one edge either assignment may be the  *)
(* one that stays.                                                         *)
(*                                                                         *)
(* The host is not in the repository.  It does what the header's address   *)
(* map asks of it: enable, ring, poll STATUS, acknowledge INGRESS_DONE and *)
(* EGRESS_READY.  It has one write or read under way at a time, gives the  *)
(* address no later than the data, and keeps bready and rready up.  A      *)
(* patient host rings again once it has the result, an eager one when it   *)
(* likes.                                                                  *)
(*                                                                         *)
(* Nothing in the design fills scratch_a, so the hash is left out; len_r   *)
(* is a constant, busy is up exactly outside S_IDLE, ingress_head and      *)
(* egress_tail are stored and read back only, and irq_out repeats two bits *)
(* of STATUS.                                                              *)
(***************************************************************************)
EXTENDS Integers

CONSTANTS
    PlSlots,            \* SLOTS, a power of two
    SLOT_BYTES,
    USE_HASH,
    Rings               \* bound: doorbells the host rings

ASSUME OffloadPlAssumption ==
    /\ PlSlots \in Nat \ {0} /\ SLOT_BYTES \in Nat /\ SLOT_BYTES > 4
    /\ USE_HASH \in BOOLEAN /\ Rings \in Nat

VARIABLES
    doorbell_in, ingress_done, egress_ready,            \* driven by both blocks
    last_in_slot, last_out_slot, ingress_tail, egress_head,
    enable, soft_reset,                                 \* the port's
    awaddr_r, have_aw, have_w, awready, wready, bvalid, arready, rvalid, rdata,
    state, slot_r, byte_idx, seq_r, scratch_b,          \* the pipeline's
    patient, hpc, hop, awvalid, wvalid, wreq, arvalid,  \* the host's
    rung, asked, released

flags == <<doorbell_in, ingress_done, egress_ready, last_in_slot, last_out_slot,
           ingress_tail, egress_head>>
port == <<enable, soft_reset, awaddr_r, have_aw, have_w, awready, wready, bvalid,
          arready, rvalid, rdata>>
pipeline == <<state, slot_r, byte_idx, seq_r, scratch_b>>
master == <<patient, hpc, hop, awvalid, wvalid, wreq, arvalid, rung, asked, released>>
pl_vars == <<flags, port, pipeline, master>>

NoWrite == [addr |-> "none", data |-> 0, next |-> "none"]
NoStatus == [ingress |-> FALSE, egress |-> FALSE]

PlInit ==
    /\ doorbell_in = FALSE /\ ingress_done = FALSE /\ egress_ready = FALSE
    /\ last_in_slot = 0 /\ last_out_slot = 0 /\ ingress_tail = 0 /\ egress_head = 0
    /\ enable = FALSE /\ soft_reset = FALSE /\ awaddr_r = "CTRL"
    /\ have_aw = FALSE /\ have_w = FALSE /\ awready = FALSE /\ wready = FALSE
    /\ bvalid = FALSE /\ arready = FALSE /\ rvalid = FALSE /\ rdata = NoStatus
    /\ state = "S_IDLE" /\ slot_r = 0 /\ byte_idx = 0 /\ seq_r = 0
    /\ scratch_b = [s \in 0 .. PlSlots - 1 |-> 0]
    /\ patient \in BOOLEAN /\ hpc = "off" /\ hop = "none"
    /\ rung = 0 /\ asked = 0 /\ released = FALSE
    /\ awvalid = FALSE /\ wvalid = FALSE /\ arvalid = FALSE
    /\ wreq = NoWrite

-----------------------------------------------------------------------------
(* The port.                                                               *)

(* A write takes effect once its address and its data are there. *)
Commit == ~ soft_reset /\ have_aw /\ have_w /\ ~ bvalid
Written(addr) == Commit /\ awaddr_r = addr

(* The write channel, and the registers only it assigns. *)
AxiWrite ==
    IF soft_reset
    THEN /\ awready' = FALSE /\ wready' = FALSE /\ bvalid' = FALSE
         /\ have_aw' = FALSE /\ have_w' = FALSE
         /\ enable' = FALSE /\ soft_reset' = FALSE
         /\ UNCHANGED awaddr_r
    ELSE /\ awready' = (awvalid /\ ~ have_aw)
         /\ wready' = (wvalid /\ ~ have_w)
         /\ awaddr_r' = IF awvalid /\ ~ have_aw THEN wreq.addr ELSE awaddr_r
         /\ have_aw' = (~ Commit /\ (awvalid \/ have_aw))
         /\ have_w' = (~ Commit /\ (wvalid \/ have_w))
         /\ bvalid' = Commit         \* bready is up
         /\ enable' = IF Written("CTRL") THEN wreq.data = 1 ELSE enable
         /\ soft_reset' = (Written("CTRL") /\ wreq.data = 2)

(* Mutant: rvalid is not lowered again. *)
AxiReadStays ==
    IF arvalid /\ ~ rvalid
    THEN /\ arready' = TRUE /\ rvalid' = TRUE
         /\ rdata' = [ingress |-> ingress_done, egress |-> egress_ready]
    ELSE arready' = FALSE /\ UNCHANGED <<rvalid, rdata>>

(* The read channel; the host reads STATUS. *)
AxiRead ==
    IF arvalid /\ ~ rvalid
    THEN /\ arready' = TRUE /\ rvalid' = TRUE
         /\ rdata' = [ingress |-> ingress_done, egress |-> egress_ready]
    ELSE arready' = FALSE /\ rvalid' = FALSE /\ UNCHANGED rdata

-----------------------------------------------------------------------------
(* The pipeline.                                                           *)

Runs(s) == ~ soft_reset /\ enable /\ state = s

LastByte == Runs("S_HASH") /\ byte_idx + 1 >= SLOT_BYTES

(* Mutant: the slot is the one ring B fills next. *)
EgressSlot == egress_head % PlSlots

(* The slot to work on: the low bits of ingress_tail. *)
IngressSlot == ingress_tail % PlSlots

(* Take the doorbell, read the slot byte by byte, store the result, tell   *)
(* the host.                                                               *)
NextState ==
    CASE state = "S_IDLE" -> IF ~ doorbell_in THEN "S_IDLE"
                             ELSE IF USE_HASH THEN "S_HASH" ELSE "S_STORE"
      [] state = "S_HASH" -> IF LastByte THEN "S_STORE" ELSE "S_HASH"
      [] state = "S_STORE" -> "S_DONE"
      [] state = "S_DONE" -> "S_IDLE"

Taken == Runs("S_IDLE") /\ doorbell_in

(* The registers only the pipeline assigns. *)
Pipeline ==
    /\ state' = IF soft_reset THEN "S_IDLE" ELSE IF enable THEN NextState ELSE state
    /\ slot_r' = IF Taken THEN IngressSlot ELSE slot_r
    /\ seq_r' = IF soft_reset THEN 0 ELSE IF Taken THEN seq_r + 1 ELSE seq_r
    /\ byte_idx' = IF soft_reset \/ LastByte THEN 0
                   ELSE IF Taken THEN 4
                   ELSE IF Runs("S_HASH") THEN byte_idx + 1 ELSE byte_idx
    /\ scratch_b' = IF Runs("S_STORE") THEN [scratch_b EXCEPT ![slot_r] = seq_r]
                    ELSE scratch_b

-----------------------------------------------------------------------------
(* The registers both blocks assign.  Each block gives the set of values   *)
(* it assigns: none, or one.                                               *)
When(condition, value) == IF condition THEN {value} ELSE {}

Driven(old, values) == IF values = {} THEN {old} ELSE values

(* Mutant: a finished slot leaves the doorbell rung. *)
DoorbellStays ==
    doorbell_in' \in Driven(doorbell_in,
        When(soft_reset, FALSE) \cup When(Written("DOORBELL_IN"), TRUE))

Doorbell ==
    doorbell_in' \in Driven(doorbell_in,
        When(soft_reset \/ Runs("S_DONE"), FALSE) \cup When(Written("DOORBELL_IN"), TRUE))

(* The two completions, cleared by writing to them, and their slots. *)
Completions ==
    /\ ingress_done' \in Driven(ingress_done,
        When(soft_reset \/ Written("INGRESS_DONE"), FALSE) \cup When(LastByte, TRUE))
    /\ egress_ready' \in Driven(egress_ready,
        When(soft_reset \/ Written("EGRESS_READY"), FALSE) \cup When(Runs("S_DONE"), TRUE))
    /\ last_in_slot' = IF soft_reset THEN 0 ELSE IF LastByte THEN slot_r ELSE last_in_slot
    /\ last_out_slot' =
        IF soft_reset THEN 0 ELSE IF Runs("S_DONE") THEN slot_r ELSE last_out_slot

(* The index mirrors the pipeline advances; the host does not write        *)
(* egress_head.  Of ingress_tail only the slot matters.                    *)
Mirrors ==
    /\ ingress_tail' \in Driven(ingress_tail,
        When(soft_reset, 0) \cup When(Written("INGRESS_TAIL"), wreq.data)
          \cup When(Runs("S_DONE"), (ingress_tail + 1) % PlSlots))
    /\ egress_head' = IF soft_reset THEN 0
                      ELSE IF Runs("S_DONE") THEN egress_head + 1 ELSE egress_head

-----------------------------------------------------------------------------
(* The host.                                                               *)

(* A write begins with its address, the data now or later. *)
StartWrite(addr, data, next) ==
    /\ hop = "none"
    /\ wreq' = [addr |-> addr, data |-> data, next |-> next]
    /\ awvalid' = TRUE
    /\ \E now \in BOOLEAN : wvalid' = now /\ hop' = IF now THEN "write" ELSE "addr"
    /\ UNCHANGED <<patient, hpc, arvalid>>

Ring ==
    /\ hpc = "idle" \/ (hpc = "await" /\ ~ patient)
    /\ rung < Rings
    /\ StartWrite("DOORBELL_IN", 1, "await")
    /\ rung' = rung + 1 /\ asked' = ingress_tail /\ released' = FALSE

(* The slot to work on next, and a reset, which begins a new session. *)
NameSlot ==
    /\ hpc = "idle" \/ (hpc = "await" /\ ~ patient)
    /\ \E s \in 0 .. PlSlots - 1 : StartWrite("INGRESS_TAIL", s, hpc)
    /\ UNCHANGED <<rung, asked, released>>

Reset ==
    /\ hpc \in {"idle", "await"}
    /\ StartWrite("CTRL", 2, "off")
    /\ rung' = 0 /\ UNCHANGED <<asked, released>>

Enable ==
    /\ hpc = "off"
    /\ StartWrite("CTRL", 1, "idle")
    /\ UNCHANGED <<rung, asked, released>>

AckIngress ==
    /\ hpc = "ack_in"
    /\ StartWrite("INGRESS_DONE", 1, "await")
    /\ released' = TRUE /\ UNCHANGED <<rung, asked>>

AckEgress ==
    /\ hpc = "ack_out"
    /\ StartWrite("EGRESS_READY", 1, "idle")
    /\ UNCHANGED <<rung, asked, released>>

Poll ==
    /\ hpc = "await" /\ hop = "none"
    /\ arvalid' = TRUE /\ hop' = "read"
    /\ UNCHANGED <<patient, hpc, awvalid, wvalid, wreq, rung, asked, released>>

(* A write under way: each channel until its ready, then the response. *)
WriteGoesOn ==
    /\ hop \in {"addr", "write"}
    /\ awvalid' = (awvalid /\ ~ awready)
    /\ \/ hop = "addr" /\ UNCHANGED <<wvalid, hop, hpc, wreq>>
       \/ hop = "addr" /\ wvalid' = TRUE /\ hop' = "write" /\ UNCHANGED <<hpc, wreq>>
       \/ /\ hop = "write" /\ wvalid' = (wvalid /\ ~ wready)
          /\ IF bvalid THEN hop' = "none" /\ hpc' = wreq.next /\ wreq' = NoWrite
             ELSE UNCHANGED <<hop, hpc, wreq>>
    /\ UNCHANGED <<patient, arvalid, rung, asked, released>>

(* A read under way; the host acts on the STATUS it returns. *)
ReadGoesOn ==
    /\ hop = "read"
    /\ arvalid' = (arvalid /\ ~ arready)
    /\ IF rvalid
       THEN /\ hop' = "none"
            /\ hpc' = IF rdata.ingress THEN "ack_in"
                      ELSE IF rdata.egress THEN "ack_out" ELSE "await"
       ELSE UNCHANGED <<hop, hpc>>
    /\ UNCHANGED <<patient, awvalid, wvalid, wreq, rung, asked, released>>

Stall == hop = "none" /\ UNCHANGED master

(* What the host does once it gets on with its work: it need neither ring  *)
(* nor reset, but it polls, acknowledges and completes its writes.         *)
Diligent ==
    \/ Poll \/ AckIngress \/ AckEgress \/ ReadGoesOn
    \/ WriteGoesOn /\ hop' # "addr"

Host == Ring \/ NameSlot \/ Reset \/ Enable \/ Diligent \/ WriteGoesOn \/ Stall

(* One edge of aclk, as far as the design goes. *)
Logic == AxiWrite /\ AxiRead /\ Pipeline /\ Doorbell /\ Completions /\ Mirrors

-----------------------------------------------------------------------------
(* A patient host that finds EGRESS_READY finds its own result: stored, in *)
(* the slot it had named, and with INGRESS_DONE seen before if the payload *)
(* is read at all.                                                         *)
ResultIsOwn ==
    patient /\ hpc = "ack_out" =>
        /\ scratch_b[last_out_slot] = rung /\ last_out_slot = asked
        /\ USE_HASH => released /\ last_in_slot = asked

(* Work is done for doorbells only, however the host's writes fall on the  *)
(* pipeline's: never more slots begun, or results announced, than rings.   *)
NoSpuriousWork ==
    hpc # "off" /\ wreq.next # "off" => egress_head <= seq_r /\ seq_r <= rung

(* The doorbell of a patient host is answered, unless it resets the logic. *)
DoorbellAnswered ==
    patient /\ hpc = "await" ~> hpc \in {"ack_out", "off"}

=============================================================================
