----------------------------- MODULE PlClients -----------------------------
(***************************************************************************)
(* rb_pl_consumer and rb_pl_producer of hdl/rb_spsc.v, each on its port of *)
(* rb_spsc_ctrl.  Both raise their request for one cycle and look for the  *)
(* grant in the next.                                                      *)
(***************************************************************************)
EXTENDS PlSpsc

VARIABLE block      \* the block in use, "consumer" or "producer"

(* data_valid and space_valid are up exactly in S_HOLD. *)
data_valid == cstate = "hold"
space_valid == pstate = "hold"

rb_pl_consumer(data_ready) ==
    /\ cons_req' = (cstate = "idle")
    /\ cons_done' = (cstate = "rel")
    /\ cslot' = IF cstate = "wait" /\ cons_grant THEN cons_index ELSE cslot
    /\ cstate' = CASE cstate = "idle" -> "wait"
                   [] cstate = "wait" -> IF cons_grant THEN "hold" ELSE "idle"
                   [] cstate = "hold" -> IF data_ready THEN "rel" ELSE "hold"
                   [] cstate = "rel" -> "idle"

rb_pl_producer(space_done) ==
    /\ prod_req' = (pstate = "idle")
    /\ prod_done' = (pstate = "pub")
    /\ pslot' = IF pstate = "wait" /\ prod_grant THEN prod_index ELSE pslot
    /\ pstate' = CASE pstate = "idle" -> "wait"
                   [] pstate = "wait" -> IF prod_grant THEN "hold" ELSE "idle"
                   [] pstate = "hold" -> IF space_done THEN "pub" ELSE "hold"
                   [] pstate = "pub" -> "idle"

ClientInit == Init /\ block \in {"consumer", "producer"}

(* One block of the repository, and other logic on the opposite port. *)
ClientClock ==
    /\ clk' = ~ clk /\ rb_spsc_ctrl /\ UNCHANGED block
    /\ \/ block = "consumer" /\ ProducerPort
          /\ \E data_ready \in BOOLEAN : rb_pl_consumer(data_ready)
       \/ block = "producer" /\ ConsumerPort
          /\ \E space_done \in BOOLEAN : rb_pl_producer(space_done)

ClientSpec ==
    /\ ClientInit /\ [][ClientClock]_<<vars, block>>
    /\ WF_<<vars, block>>(ClientClock)

-----------------------------------------------------------------------------
(* rb_spsc.v: rb_pl_consumer will "pull one slot from an ingress ring,     *)
(* pulse data_valid" and rb_pl_producer "get a free egress slot, pulse     *)
(* space_valid".  The consumer block gets a slot of a ring that is not     *)
(* empty, the producer block one of a ring that is not full.               *)
BlockGetsSlot ==
    /\ block = "consumer" /\ head # tail ~> data_valid
    /\ block = "producer" /\ ~ full_o ~> space_valid

=============================================================================
