------------------------------- MODULE PlSpsc -------------------------------
(***************************************************************************)
(* rb_spsc_ctrl of hdl/rb_spsc.v, the ring controller for programmable     *)
(* logic, between two pieces of logic that keep a request up until it is   *)
(* granted.  A step is one clock edge: every register takes its next value *)
(* from the present ones, so a grant is seen one cycle after the request   *)
(* was, and a request is withdrawn one cycle after the grant.              *)
(***************************************************************************)
EXTENDS RbArith

CONSTANTS LIMIT, SLOTS

ASSUME PlAssumption ==
    /\ SLOTS \in Nat \ {0} /\ W % SLOTS = 0
    /\ LIMIT \in 1 .. SLOTS /\ SLOTS < W

VARIABLES
    clk,                                    \* toggles at every edge
    head, tail,
    prod_grant, prod_index, cons_grant, cons_index,
    prod_req, prod_done, pstate, pslot,     \* the producing logic
    cons_req, cons_done, cstate, cslot      \* the consuming logic

ctrl == <<head, tail, prod_grant, prod_index, cons_grant, cons_index>>
upstream == <<prod_req, prod_done, pstate, pslot>>
downstream == <<cons_req, cons_done, cstate, cslot>>
vars == <<clk, ctrl, upstream, downstream>>

(* Reset. *)
Init ==
    /\ clk = FALSE /\ head = 0 /\ tail = 0
    /\ prod_grant = FALSE /\ prod_index = 0 /\ cons_grant = FALSE /\ cons_index = 0
    /\ prod_req = FALSE /\ prod_done = FALSE /\ pstate = "idle" /\ pslot = 0
    /\ cons_req = FALSE /\ cons_done = FALSE /\ cstate = "idle" /\ cslot = 0

(* Mutant: full is found one slot late. *)
full_late == Sub(head, tail) > LIMIT

full_o == Sub(head, tail) >= LIMIT

(* Mutant: the last message in the ring is not seen. *)
empty_early == Sub(head, tail) <= 1

empty_o == head = tail

(* rb_slot_addr: the slot of an absolute index. *)
slot_id(index) == index % SLOTS

(* Mutant: the indices advance with the grant, not with done. *)
rb_spsc_ctrl_early ==
    /\ prod_grant' = (prod_req /\ ~ full_o)
    /\ prod_index' = IF prod_req /\ ~ full_o THEN head ELSE prod_index
    /\ head' = IF prod_req /\ ~ full_o THEN Inc(head) ELSE head
    /\ cons_grant' = (cons_req /\ ~ empty_o)
    /\ cons_index' = IF cons_req /\ ~ empty_o THEN tail ELSE cons_index
    /\ tail' = IF cons_req /\ ~ empty_o THEN Inc(tail) ELSE tail

(* The controller's clock edge. *)
rb_spsc_ctrl ==
    /\ prod_grant' = (prod_req /\ ~ full_o)
    /\ prod_index' = IF prod_req /\ ~ full_o THEN head ELSE prod_index
    /\ head' = IF prod_done THEN Inc(head) ELSE head
    /\ cons_grant' = (cons_req /\ ~ empty_o)
    /\ cons_index' = IF cons_req /\ ~ empty_o THEN tail ELSE cons_index
    /\ tail' = IF cons_done THEN Inc(tail) ELSE tail

(* Logic at the producer's port: raise the request at will, hold it until  *)
(* granted, write the slot, pulse done.                                    *)
ProducerPort ==
    \/ pstate = "idle" /\ UNCHANGED upstream
    \/ pstate = "idle" /\ prod_req' = TRUE /\ pstate' = "wait"
       /\ UNCHANGED <<prod_done, pslot>>
    \/ pstate = "wait" /\ ~ prod_grant /\ UNCHANGED upstream
    \/ pstate = "wait" /\ prod_grant /\ prod_req' = FALSE /\ pslot' = prod_index
       /\ pstate' = "hold" /\ UNCHANGED prod_done
    \/ pstate = "hold" /\ UNCHANGED upstream
    \/ pstate = "hold" /\ prod_done' = TRUE /\ pstate' = "done"
       /\ UNCHANGED <<prod_req, pslot>>
    \/ pstate = "done" /\ prod_done' = FALSE /\ pstate' = "idle"
       /\ UNCHANGED <<prod_req, pslot>>

(* The same at the consumer's port; it asks again at once and reads its    *)
(* slot in finite time.                                                    *)
ConsumerPort ==
    \/ cstate = "idle" /\ cons_req' = TRUE /\ cstate' = "wait"
       /\ UNCHANGED <<cons_done, cslot>>
    \/ cstate = "wait" /\ ~ cons_grant /\ UNCHANGED downstream
    \/ cstate = "wait" /\ cons_grant /\ cons_req' = FALSE /\ cslot' = cons_index
       /\ cstate' = "hold" /\ UNCHANGED cons_done
    \/ cstate = "hold" /\ UNCHANGED downstream
    \/ cstate = "hold" /\ cons_done' = TRUE /\ cstate' = "done"
       /\ UNCHANGED <<cons_req, cslot>>
    \/ cstate = "done" /\ cons_done' = FALSE /\ cstate' = "idle"
       /\ UNCHANGED <<cons_req, cslot>>

Clock == clk' = ~ clk /\ rb_spsc_ctrl /\ ProducerPort /\ ConsumerPort

Spec == Init /\ [][Clock]_vars

(* The clock runs, and the consuming logic does not keep a slot for ever.  *)
(* The producing logic need not do anything.                               *)
FairSpec == Spec /\ WF_vars(Clock) /\ WF_vars(Clock /\ cstate = "hold" /\ cstate' = "done")

-----------------------------------------------------------------------------
(* The indices the two sides hold are the ends of the ring, although each  *)
(* request earns a second, late grant: no index is handed out twice, and   *)
(* the consumer never holds a slot of an empty ring.                       *)
HeldIsCurrent ==
    /\ pstate = "hold" => pslot = head
    /\ cstate = "hold" => cslot = tail /\ head # tail

(* A slot being written is not one that holds an unread message: the ring  *)
(* never has more than LIMIT messages, the one being written included.     *)
PlSlotsApart ==
    /\ Sub(head, tail) + (IF pstate = "hold" THEN 1 ELSE 0) <= LIMIT
    /\ pstate = "hold" /\ cstate = "hold" => slot_id(pslot) # slot_id(cslot)

(* Every published index is read and released in the end. *)
PlDrains ==
    \A p \in Word : Sub(p, tail) < Sub(head, tail) ~> Sub(p, tail) >= Sub(head, tail)

=============================================================================
