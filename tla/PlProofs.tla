------------------------------ MODULE PlProofs ------------------------------
(***************************************************************************)
(* Proofs about the two Verilog files.  For every index width, LIMIT and   *)
(* SLOTS PlSpsc allows, the controller hands out each end of the ring once *)
(* and keeps the slot being written apart from the one being read.  For    *)
(* every number and size of slots and of doorbells, the offload pipeline   *)
(* works for doorbells only, and a patient host finds its own result.      *)
(***************************************************************************)
EXTENDS PlDesigns, WordProofs

-----------------------------------------------------------------------------
(* rb_spsc.v.                                                              *)

States == {"idle", "wait", "hold", "done"}

PlTypeOK ==
    /\ {prod_grant, prod_req, prod_done, cons_grant, cons_req, cons_done} \subseteq BOOLEAN
    /\ pstate \in States /\ cstate \in States
    /\ head \in Word /\ tail \in Word

(* The request is up while waiting and done is up for one cycle.  The late *)
(* grant every request earns finds its owner holding the slot, and is gone *)
(* before the owner can ask again.                                         *)
PortInv ==
    /\ prod_req <=> pstate = "wait"
    /\ prod_done <=> pstate = "done"
    /\ prod_grant => pstate \in {"wait", "hold"}
    /\ cons_req <=> cstate = "wait"
    /\ cons_done <=> cstate = "done"
    /\ cons_grant => cstate \in {"wait", "hold"}

(* A side has been promised an end of the ring, and has not yet moved it. *)
ProdOwns ==
    \/ pstate \in {"hold", "done"}
    \/ pstate = "wait" /\ prod_grant

ConsOwns ==
    \/ cstate \in {"hold", "done"}
    \/ cstate = "wait" /\ cons_grant

(* The promised slot is free, or holds a message, until its owner is done. *)
RoomInv ==
    /\ Sub(head, tail) <= LIMIT
    /\ ProdOwns => Sub(head, tail) < LIMIT
    /\ ConsOwns => head # tail

(* The index granted, and then held, is the end of the ring. *)
IndexInv ==
    /\ pstate = "wait" /\ prod_grant => prod_index = head
    /\ pstate = "hold" => pslot = head
    /\ cstate = "wait" /\ cons_grant => cons_index = tail
    /\ cstate = "hold" => cslot = tail

PlInv == PlTypeOK /\ PortInv /\ RoomInv /\ IndexInv

-----------------------------------------------------------------------------
LEMMA SpscInit == Init => PlInv
<1> SUFFICES ASSUME Init PROVE PlInv
  OBVIOUS
<1>1. 0 \in Word /\ Sub(0, 0) = 0
  BY WordAssumption DEF Word, Sub
<1>2. PlTypeOK /\ PortInv /\ IndexInv /\ ~ ProdOwns /\ ~ ConsOwns
  BY <1>1, Zenon DEF Init, PlTypeOK, PortInv, IndexInv, ProdOwns, ConsOwns, States
<1>3. Sub(head, tail) <= LIMIT
  BY <1>1, PlAssumption DEF Init
<1> QED BY <1>2, <1>3 DEF PlInv, RoomInv

(* The producer's end moves exactly when its owner is done. *)
LEMMA Ends ==
  ASSUME PlInv, Clock
  PROVE  /\ head' = IF pstate = "done" THEN Inc(head) ELSE head
         /\ tail' = IF cstate = "done" THEN Inc(tail) ELSE tail
<1>1. prod_done <=> pstate = "done"
  BY DEF PlInv, PortInv
<1>2. cons_done <=> cstate = "done"
  BY DEF PlInv, PortInv
<1> QED BY <1>1, <1>2, Zenon DEF Clock, rb_spsc_ctrl

LEMMA PortNext ==
  ASSUME PlInv, Clock
  PROVE  PortInv' /\ PlTypeOK'
<1>1. /\ prod_req' \in BOOLEAN /\ prod_done' \in BOOLEAN /\ pstate' \in States
      /\ prod_req' <=> pstate' = "wait"
      /\ prod_done' <=> pstate' = "done"
  <2>1. pstate \in States /\ prod_req \in BOOLEAN /\ prod_done \in BOOLEAN
    BY DEF PlInv, PlTypeOK
  <2>2. (prod_req <=> pstate = "wait") /\ (prod_done <=> pstate = "done")
    BY DEF PlInv, PortInv
  <2>3. \/ pstate' = pstate /\ prod_req' = prod_req /\ prod_done' = prod_done
        \/ pstate = "idle" /\ pstate' = "wait" /\ prod_req' = TRUE /\ prod_done' = prod_done
        \/ pstate = "wait" /\ pstate' = "hold" /\ prod_req' = FALSE /\ prod_done' = prod_done
        \/ pstate = "hold" /\ pstate' = "done" /\ prod_req' = prod_req /\ prod_done' = TRUE
        \/ pstate = "done" /\ pstate' = "idle" /\ prod_req' = prod_req /\ prod_done' = FALSE
    BY DEF Clock, ProducerPort, upstream
  <2>4. pstate' \in States
    BY <2>1, <2>3 DEF States
  <2>5. prod_req' \in BOOLEAN /\ (prod_req' <=> pstate' = "wait")
    <3>1. prod_req' \in BOOLEAN
      BY <2>1, <2>3, Zenon
    <3>2. prod_req' => pstate' = "wait"
      BY <2>1, <2>2, <2>3, Zenon
    <3>3. pstate' = "wait" => prod_req'
      BY <2>1, <2>2, <2>3, Zenon
    <3> QED BY <3>1, <3>2, <3>3
  <2>6. prod_done' \in BOOLEAN /\ (prod_done' <=> pstate' = "done")
    <3>1. prod_done' \in BOOLEAN
      BY <2>1, <2>3, Zenon
    <3>2. prod_done' => pstate' = "done"
      BY <2>1, <2>2, <2>3, Zenon
    <3>3. pstate' = "done" => prod_done'
      BY <2>1, <2>2, <2>3, Zenon
    <3> QED BY <3>1, <3>2, <3>3
  <2> QED BY <2>4, <2>5, <2>6
<1>2. /\ cons_req' \in BOOLEAN /\ cons_done' \in BOOLEAN /\ cstate' \in States
      /\ cons_req' <=> cstate' = "wait"
      /\ cons_done' <=> cstate' = "done"
  <2>1. cstate \in States /\ cons_req \in BOOLEAN /\ cons_done \in BOOLEAN
    BY DEF PlInv, PlTypeOK
  <2>2. (cons_req <=> cstate = "wait") /\ (cons_done <=> cstate = "done")
    BY DEF PlInv, PortInv
  <2>3. \/ cstate' = cstate /\ cons_req' = cons_req /\ cons_done' = cons_done
        \/ cstate = "idle" /\ cstate' = "wait" /\ cons_req' = TRUE /\ cons_done' = cons_done
        \/ cstate = "wait" /\ cstate' = "hold" /\ cons_req' = FALSE /\ cons_done' = cons_done
        \/ cstate = "hold" /\ cstate' = "done" /\ cons_req' = cons_req /\ cons_done' = TRUE
        \/ cstate = "done" /\ cstate' = "idle" /\ cons_req' = cons_req /\ cons_done' = FALSE
    BY DEF Clock, ConsumerPort, downstream
  <2>4. cstate' \in States
    BY <2>1, <2>3 DEF States
  <2>5. cons_req' \in BOOLEAN /\ (cons_req' <=> cstate' = "wait")
    <3>1. cons_req' \in BOOLEAN
      BY <2>1, <2>3, Zenon
    <3>2. cons_req' => cstate' = "wait"
      BY <2>1, <2>2, <2>3, Zenon
    <3>3. cstate' = "wait" => cons_req'
      BY <2>1, <2>2, <2>3, Zenon
    <3> QED BY <3>1, <3>2, <3>3
  <2>6. cons_done' \in BOOLEAN /\ (cons_done' <=> cstate' = "done")
    <3>1. cons_done' \in BOOLEAN
      BY <2>1, <2>3, Zenon
    <3>2. cons_done' => cstate' = "done"
      BY <2>1, <2>2, <2>3, Zenon
    <3>3. cstate' = "done" => cons_done'
      BY <2>1, <2>2, <2>3, Zenon
    <3> QED BY <3>1, <3>2, <3>3
  <2> QED BY <2>4, <2>5, <2>6
<1>3. prod_grant' \in BOOLEAN /\ (prod_grant' => pstate' \in {"wait", "hold"})
  BY Zenon DEF PlInv, PortInv, Clock, ProducerPort, rb_spsc_ctrl, upstream
<1>4. cons_grant' \in BOOLEAN /\ (cons_grant' => cstate' \in {"wait", "hold"})
  BY Zenon DEF PlInv, PortInv, Clock, ConsumerPort, rb_spsc_ctrl, downstream
<1>5. head' \in Word /\ tail' \in Word
  BY Ends, WordOps DEF PlInv, PlTypeOK
<1> QED BY <1>1, <1>2, <1>3, <1>4, <1>5 DEF PortInv, PlTypeOK

(* A promise is fresh, made on what the controller saw this cycle, or it   *)
(* was there before; the side that moved its end has none.                 *)
LEMMA Promises ==
  ASSUME PlInv, Clock
  PROVE  /\ ProdOwns' => (ProdOwns \/ ~ full_o) /\ pstate # "done"
         /\ ConsOwns' => (ConsOwns \/ ~ empty_o) /\ cstate # "done"
<1>1. ProdOwns' => (ProdOwns \/ ~ full_o) /\ pstate # "done"
  BY Zenon DEF ProdOwns, PlInv, PortInv, Clock, ProducerPort, rb_spsc_ctrl, upstream
<1>2. ConsOwns' => (ConsOwns \/ ~ empty_o) /\ cstate # "done"
  BY Zenon DEF ConsOwns, PlInv, PortInv, Clock, ConsumerPort, rb_spsc_ctrl, downstream
<1> QED BY <1>1, <1>2

LEMMA RoomNext ==
  ASSUME PlInv, Clock
  PROVE  RoomInv'
<1> DEFINE d == Sub(head, tail)
<1>0. head \in Word /\ tail \in Word /\ d \in Word
  BY WordOps DEF PlInv, PlTypeOK
<1>1. W \in Nat /\ LIMIT \in Nat /\ LIMIT < W
  BY WordAssumption, PlAssumption
<1>2. d <= LIMIT /\ (ProdOwns => d < LIMIT) /\ (ConsOwns => head # tail)
  BY DEF PlInv, RoomInv
<1>3. (pstate = "done" => ProdOwns) /\ (cstate = "done" => ConsOwns)
  BY DEF ProdOwns, ConsOwns
<1>4. ProdOwns' => d < LIMIT /\ pstate # "done"
  BY <1>0, <1>1, <1>2, Promises DEF full_o, Word
<1>5. ConsOwns' => head # tail /\ cstate # "done"
  BY <1>2, Promises DEF empty_o
<1>6. head # tail <=> d # 0
  BY <1>0, NoDistance
<1>7. Sub(head', tail') = d + (IF pstate = "done" THEN 1 ELSE 0)
                            - (IF cstate = "done" THEN 1 ELSE 0)
  <2>1. CASE pstate # "done" /\ cstate # "done"
    BY <2>1, <1>0, Ends DEF Word
  <2>2. CASE pstate = "done" /\ cstate # "done"
    BY <2>2, <1>0, <1>1, <1>2, <1>3, Ends, AheadAdvances DEF Word
  <2>3. CASE pstate # "done" /\ cstate = "done"
    BY <2>3, <1>0, <1>1, <1>2, <1>3, Ends, BehindAdvances DEF Word
  <2>4. CASE pstate = "done" /\ cstate = "done"
    <3>1. Sub(Inc(head), tail) = d + 1
      BY <2>4, <1>0, <1>1, <1>2, <1>3, AheadAdvances DEF Word
    <3>2. Inc(head) \in Word /\ Inc(head) # tail
      BY <3>1, <1>0, WordOps, NoDistance DEF Word
    <3> QED BY <2>4, <3>1, <3>2, <1>0, Ends, BehindAdvances DEF Word
  <2> QED BY <2>1, <2>2, <2>3, <2>4
<1>8. d \in Nat
  BY <1>0 DEF Word
<1> HIDE DEF d
<1>9. Sub(head', tail') <= LIMIT /\ (ProdOwns' => Sub(head', tail') < LIMIT)
  BY <1>1, <1>2, <1>3, <1>4, <1>7, <1>8
<1>10. ConsOwns' => Sub(head', tail') > 0
  BY <1>5, <1>6, <1>7, <1>8
<1>11. Sub(head', tail') > 0 => head' # tail'
  <2>1. head' \in Word /\ tail' \in Word
    BY PortNext DEF PlTypeOK
  <2> QED BY <2>1, NoDistance
<1> QED BY <1>9, <1>10, <1>11 DEF RoomInv

LEMMA IndexNext ==
  ASSUME PlInv, Clock
  PROVE  IndexInv'
<1>1. /\ pstate' = "wait" /\ prod_grant' => prod_index' = head'
      /\ pstate' = "hold" => pslot' = head'
  <2>1. pstate' \in {"wait", "hold"} => head' = head
    BY Zenon DEF PlInv, PortInv, Clock, ProducerPort, rb_spsc_ctrl, upstream
  <2>2. prod_grant' => prod_index' = head
    BY Zenon DEF Clock, rb_spsc_ctrl
  <2>3. pstate' = "hold" => pslot' = head
    BY SMT DEF PlInv, IndexInv, Clock, ProducerPort, upstream
  <2> QED BY <2>1, <2>2, <2>3
<1>2. /\ cstate' = "wait" /\ cons_grant' => cons_index' = tail'
      /\ cstate' = "hold" => cslot' = tail'
  <2>1. cstate' \in {"wait", "hold"} => tail' = tail
    BY Zenon DEF PlInv, PortInv, Clock, ConsumerPort, rb_spsc_ctrl, downstream
  <2>2. cons_grant' => cons_index' = tail
    BY Zenon DEF Clock, rb_spsc_ctrl
  <2>3. cstate' = "hold" => cslot' = tail
    BY SMT DEF PlInv, IndexInv, Clock, ConsumerPort, downstream
  <2> QED BY <2>1, <2>2, <2>3
<1> QED BY <1>1, <1>2 DEF IndexInv

LEMMA SpscNext == PlInv /\ [Clock]_vars => PlInv'
<1> SUFFICES ASSUME PlInv, [Clock]_vars PROVE PlInv'
  OBVIOUS
<1>1. CASE Clock
  BY <1>1, PortNext, RoomNext, IndexNext DEF PlInv
<1>2. CASE UNCHANGED vars
  BY <1>2 DEF vars, ctrl, upstream, downstream, PlInv, PlTypeOK, PortInv,
              RoomInv, IndexInv, ProdOwns, ConsOwns
<1> QED BY <1>1, <1>2

-----------------------------------------------------------------------------
(* rb_spsc_ctrl: an index held on either port is that end of the ring, and *)
(* the consumer never holds one of an empty ring, although the controller  *)
(* grants every held request twice.                                        *)
THEOREM PlHeldIsCurrent == Spec => []HeldIsCurrent
<1>1. PlInv => HeldIsCurrent
  BY DEF PlInv, IndexInv, RoomInv, ConsOwns, HeldIsCurrent
<1> QED BY <1>1, SpscInit, SpscNext, PTL DEF Spec

(* rb_spsc_ctrl with rb_slot_addr: the slot being written and the one      *)
(* being read are different ones, also after the indices have wrapped.     *)
THEOREM PlSlotsAreApart == Spec => []PlSlotsApart
<1>1. PlInv => PlSlotsApart
  <2> SUFFICES ASSUME PlInv PROVE PlSlotsApart
    OBVIOUS
  <2>0. head \in Word /\ tail \in Word /\ Sub(head, tail) \in Nat
    BY WordOps DEF PlInv, PlTypeOK, Word
  <2>1. LIMIT \in Nat /\ SLOTS \in Nat \ {0} /\ LIMIT <= SLOTS /\ W % SLOTS = 0
    BY PlAssumption
  <2>2. Sub(head, tail) <= LIMIT /\ (pstate = "hold" => Sub(head, tail) < LIMIT)
    BY DEF PlInv, RoomInv, ProdOwns
  <2>3. Sub(head, tail) + (IF pstate = "hold" THEN 1 ELSE 0) <= LIMIT
    BY <2>0, <2>1, <2>2
  <2>4. ASSUME pstate = "hold", cstate = "hold"
        PROVE  slot_id(pslot) # slot_id(cslot)
    <3>1. pslot = head /\ cslot = tail /\ head # tail
      BY <2>4 DEF PlInv, IndexInv, RoomInv, ConsOwns
    <3>2. head % SLOTS = tail % SLOTS => Sub(head, tail) >= SLOTS
      BY <2>0, <2>1, <3>1, SameIndexIsFar
    <3> QED BY <2>0, <2>1, <2>2, <2>4, <3>1, <3>2 DEF slot_id
  <2> QED BY <2>3, <2>4 DEF PlSlotsApart
<1> QED BY <1>1, SpscInit, SpscNext, PTL DEF Spec

-----------------------------------------------------------------------------
(* rb_offload_pl.v.                                                        *)

SlotIds == 0 .. PlSlots - 1

OffloadTypeOK ==
    /\ doorbell_in \in BOOLEAN /\ ingress_done \in BOOLEAN /\ egress_ready \in BOOLEAN
    /\ enable \in BOOLEAN /\ soft_reset \in BOOLEAN
    /\ last_in_slot \in SlotIds /\ last_out_slot \in SlotIds
    /\ ingress_tail \in SlotIds /\ slot_r \in SlotIds
    /\ egress_head \in Nat /\ seq_r \in Nat /\ rung \in Nat
    /\ state \in {"S_IDLE", "S_HASH", "S_STORE", "S_DONE"}
    /\ byte_idx \in Nat /\ scratch_b \in [SlotIds -> Nat]

(* A write goes through three phases.  Between writes both channels are    *)
(* down. *)
Quiet ==
    /\ hop \in {"none", "read"} /\ wreq = NoWrite
    /\ awvalid = FALSE /\ wvalid = FALSE /\ have_aw = FALSE /\ have_w = FALSE
    /\ awready = FALSE /\ wready = FALSE
    /\ bvalid = FALSE /\ soft_reset = FALSE

(* The port has the address when awready answers it, the data after that.  *)
Writing ==
    /\ hop \in {"addr", "write"}
    /\ bvalid = FALSE /\ soft_reset = FALSE
    /\ awvalid \in BOOLEAN /\ have_aw \in BOOLEAN /\ have_w \in BOOLEAN
    /\ awvalid = TRUE \/ have_aw = TRUE
    /\ awready = (awvalid /\ have_aw)
    /\ have_aw = TRUE => awaddr_r = wreq.addr
    /\ wvalid = (hop = "write")
    /\ have_w = TRUE => hop = "write" /\ have_aw = TRUE
    /\ wready = have_w

(* The write has taken effect, once; the reset it may have asked for comes *)
(* with the edge at which the host sees the answer.                        *)
Answered ==
    /\ hop = "write" /\ bvalid = TRUE
    /\ awvalid = FALSE /\ wvalid = FALSE /\ have_aw = FALSE /\ have_w = FALSE
    /\ awready = FALSE /\ wready = FALSE
    /\ soft_reset = (wreq.next = "off")

WriteInv == Quiet \/ Writing \/ Answered

Request(addr, data, next) == wreq = [addr |-> addr, data |-> data, next |-> next]

(* Where the host is when it writes a register. *)
RequestInv ==
    \/ wreq = NoWrite
    \/ Request("DOORBELL_IN", 1, "await") /\ hpc \in {"idle", "await"}
       /\ (patient => hpc = "idle")
    \/ (\E s \in SlotIds : Request("INGRESS_TAIL", s, hpc)) /\ hpc \in {"idle", "await"}
       /\ (patient => hpc = "idle")
    \/ Request("CTRL", 2, "off") /\ hpc \in {"idle", "await"} /\ rung = 0
    \/ Request("CTRL", 1, "idle") /\ hpc = "off"
    \/ Request("INGRESS_DONE", 1, "await") /\ hpc = "ack_in" /\ released = TRUE
    \/ Request("EGRESS_READY", 1, "idle") /\ hpc = "ack_out"

-----------------------------------------------------------------------------
(* The phases follow each other.                                           *)

(* The host begins a write. *)
Starts == hop = "none" /\ \E addr, data, next : StartWrite(addr, data, next)

LEMMA HostKinds ==
  ASSUME Host
  PROVE  \/ Starts
         \/ Poll \/ ReadGoesOn \/ WriteGoesOn \/ Stall
<1>1. CASE Ring \/ Reset \/ Enable \/ AckIngress \/ AckEgress
  BY <1>1 DEF Ring, Reset, Enable, AckIngress, AckEgress, Starts, StartWrite
<1>2. CASE NameSlot
  BY <1>2, Zenon DEF NameSlot, Starts, StartWrite
<1> QED BY <1>1, <1>2 DEF Host, Diligent

(* The port, unless it is being reset. *)
LEMMA PortStep ==
  ASSUME Logic, soft_reset = FALSE
  PROVE  /\ awready' = (awvalid /\ ~ have_aw) /\ wready' = (wvalid /\ ~ have_w)
         /\ have_aw' = (~ Commit /\ (awvalid \/ have_aw))
         /\ have_w' = (~ Commit /\ (wvalid \/ have_w))
         /\ awaddr_r' = IF awvalid /\ ~ have_aw THEN wreq.addr ELSE awaddr_r
         /\ bvalid' = Commit /\ Commit \in BOOLEAN
         /\ soft_reset' = (Commit /\ awaddr_r = "CTRL" /\ wreq.data = 2)
         /\ Commit = FALSE => soft_reset' = FALSE
<1>1. /\ awready' = (awvalid /\ ~ have_aw) /\ wready' = (wvalid /\ ~ have_w)
      /\ have_aw' = (~ Commit /\ (awvalid \/ have_aw))
      /\ have_w' = (~ Commit /\ (wvalid \/ have_w))
      /\ awaddr_r' = IF awvalid /\ ~ have_aw THEN wreq.addr ELSE awaddr_r
      /\ bvalid' = Commit
  BY Zenon DEF Logic, AxiWrite
<1>2. Commit \in BOOLEAN
  BY Zenon DEF Commit
<1>3. soft_reset' = (Commit /\ awaddr_r = "CTRL" /\ wreq.data = 2)
  BY Zenon DEF Logic, AxiWrite, Written
<1>4. Commit = FALSE => soft_reset' = FALSE
  BY <1>3, Zenon
<1> QED BY <1>1, <1>2, <1>3, <1>4, Zenon

LEMMA QuietNext ==
  ASSUME Quiet, Logic, Host
  PROVE  /\ Commit = FALSE /\ soft_reset = FALSE
         /\ \/ Starts /\ Writing'
            \/ ~ Starts /\ Quiet' /\ wreq' = wreq
<1>1. Commit = FALSE /\ soft_reset = FALSE
  BY Zenon DEF Quiet, Commit
<1>2. /\ awready' = FALSE /\ wready' = FALSE /\ have_aw' = FALSE /\ have_w' = FALSE
      /\ bvalid' = FALSE /\ soft_reset' = FALSE
  <2>1. awvalid = FALSE /\ wvalid = FALSE /\ have_aw = FALSE /\ have_w = FALSE
    BY DEF Quiet
  <2> QED BY <1>1, <2>1, PortStep, Zenon
<1>3. CASE Starts
  <2>1. /\ awvalid' = TRUE
        /\ \E now \in BOOLEAN : wvalid' = now /\ hop' = IF now THEN "write" ELSE "addr"
    BY <1>3 DEF Starts, StartWrite
  <2>2. hop' \in {"addr", "write"} /\ wvalid' = (hop' = "write")
    BY <2>1
  <2>3. awready' = (awvalid' /\ have_aw')
    BY <1>2, <2>1, Zenon
  <2> QED BY <1>1, <1>2, <1>3, <2>1, <2>2, <2>3, Zenon DEF Writing
<1>4. CASE ~ Starts
  <2>1. Poll \/ ReadGoesOn \/ Stall
    BY <1>4, HostKinds, Zenon DEF Quiet, WriteGoesOn
  <2>2. UNCHANGED <<awvalid, wvalid, wreq>> /\ hop' \in {"none", "read"}
    BY <2>1 DEF Quiet, Poll, ReadGoesOn, Stall, master
  <2> QED BY <1>1, <1>2, <1>4, <2>2 DEF Quiet
<1> QED BY <1>3, <1>4, Zenon

(* Until its address and its data are there, the write stays as it is. *)
LEMMA WritingNext ==
  ASSUME Writing, Logic, Host, RequestInv
  PROVE  /\ WriteGoesOn /\ UNCHANGED <<wreq, hpc>> /\ soft_reset = FALSE
         /\ \/ Commit = FALSE /\ Writing'
            \/ Commit = TRUE /\ awaddr_r = wreq.addr /\ Answered'
<1>1. /\ hop \in {"addr", "write"} /\ bvalid = FALSE /\ soft_reset = FALSE
      /\ awvalid \in BOOLEAN /\ have_aw \in BOOLEAN /\ have_w \in BOOLEAN
      /\ awvalid = TRUE \/ have_aw = TRUE
      /\ awready = (awvalid /\ have_aw)
      /\ have_aw = TRUE => awaddr_r = wreq.addr
      /\ wvalid = (hop = "write")
      /\ have_w = TRUE => hop = "write" /\ have_aw = TRUE
      /\ wready = have_w
  BY DEF Writing
<1>2. WriteGoesOn
  BY <1>1, HostKinds, Zenon DEF Starts, Poll, ReadGoesOn, Stall
<1>3. /\ UNCHANGED <<wreq, hpc>>
      /\ awvalid' = (awvalid /\ ~ awready)
      /\ \/ hop = "addr" /\ hop' = "addr" /\ wvalid' = wvalid
         \/ hop = "addr" /\ hop' = "write" /\ wvalid' = TRUE
         \/ hop = "write" /\ hop' = "write" /\ wvalid' = (wvalid /\ ~ wready)
  BY <1>1, <1>2 DEF WriteGoesOn
<1>4. Commit = (have_aw = TRUE /\ have_w = TRUE)
  BY <1>1, Zenon DEF Commit
<1>5. CASE have_w = TRUE
  <2>1. have_aw = TRUE /\ hop = "write" /\ wvalid = TRUE /\ wready = TRUE /\ Commit = TRUE
    BY <1>1, <1>4, <1>5, Zenon
  <2>2. /\ awready' = FALSE /\ wready' = FALSE /\ have_aw' = FALSE /\ have_w' = FALSE
        /\ bvalid' = TRUE
    BY <1>1, <1>5, <2>1, PortStep, Zenon
  <2>3. awvalid' = FALSE
    <3>1. CASE awvalid = TRUE
      BY <1>1, <1>3, <2>1, <3>1, Zenon
    <3>2. CASE awvalid = FALSE
      BY <1>3, <3>2, Zenon
    <3> QED BY <1>1, <3>1, <3>2, Zenon
  <2>4. hop' = "write" /\ wvalid' = FALSE
    BY <1>3, <2>1, Zenon
  <2>5. soft_reset' = (wreq'.next = "off")
    <3>1. soft_reset' = (awaddr_r = "CTRL" /\ wreq.data = 2)
      BY <1>1, <2>1, PortStep, Zenon
    <3>2. (wreq.addr = "CTRL" /\ wreq.data = 2) <=> (wreq.next = "off")
      BY DEF RequestInv, Request, NoWrite
    <3>3. awaddr_r = wreq.addr
      BY <1>1, <2>1
    <3>4. (awaddr_r = "CTRL" /\ wreq.data = 2) = (wreq.next = "off")
      BY <3>2, <3>3, Zenon
    <3> QED BY <1>3, <3>1, <3>4
  <2> QED BY <1>1, <1>2, <1>3, <2>1, <2>2, <2>3, <2>4, <2>5, Zenon DEF Answered
<1>6. CASE have_w = FALSE
  <2>1. Commit = FALSE
    BY <1>4, <1>6, Zenon
  <2>2. bvalid' = FALSE /\ soft_reset' = FALSE
    BY <1>1, <2>1, PortStep, Zenon
  <2>3. /\ awvalid' \in BOOLEAN /\ have_aw' = TRUE
        /\ awready' = (awvalid' /\ have_aw') /\ awaddr_r' = wreq'.addr
    <3>1. have_aw' = TRUE
      BY <1>1, <2>1, PortStep, Zenon
    <3>2. CASE have_aw = TRUE
      <4>1. awready' = FALSE /\ awaddr_r' = awaddr_r
        BY <1>1, <3>2, PortStep, Zenon
      <4>2. awvalid' = FALSE
        <5>1. CASE awvalid = TRUE
          BY <1>1, <1>3, <3>2, <5>1, Zenon
        <5>2. CASE awvalid = FALSE
          BY <1>3, <5>2, Zenon
        <5> QED BY <1>1, <5>1, <5>2, Zenon
      <4> QED BY <1>1, <1>3, <3>1, <3>2, <4>1, <4>2, Zenon
    <3>3. CASE have_aw = FALSE
      <4>1. awvalid = TRUE /\ awready = FALSE
        BY <1>1, <3>3, Zenon
      <4>2. awready' = TRUE /\ awaddr_r' = wreq.addr
        BY <1>1, <3>3, <4>1, PortStep, Zenon
      <4>3. awvalid' = TRUE
        BY <1>3, <4>1, Zenon
      <4> QED BY <1>3, <3>1, <4>2, <4>3, Zenon
    <3> QED BY <1>1, <3>2, <3>3, Zenon
  <2>4. CASE hop = "write"
    <3>1. wvalid = TRUE /\ wready = FALSE
      BY <1>1, <1>6, <2>4, Zenon
    <3>2. hop' = "write" /\ wvalid' = TRUE
      BY <1>3, <2>4, <3>1, Zenon
    <3>3. have_w' = TRUE /\ wready' = TRUE
      BY <1>1, <1>6, <2>1, <3>1, PortStep, Zenon
    <3> QED BY <1>1, <1>2, <1>3, <2>1, <2>2, <2>3, <3>2, <3>3, Zenon DEF Writing
  <2>5. CASE hop = "addr"
    <3>1. wvalid = FALSE
      BY <1>1, <2>5, Zenon
    <3>2. have_w' = FALSE /\ wready' = FALSE
      BY <1>1, <1>6, <2>1, <3>1, PortStep, Zenon
    <3>3. hop' \in {"addr", "write"} /\ wvalid' = (hop' = "write")
      BY <1>3, <2>5, <3>1, Zenon
    <3> QED BY <1>1, <1>2, <1>3, <2>1, <2>2, <2>3, <3>2, <3>3, Zenon DEF Writing
  <2> QED BY <1>1, <2>4, <2>5, Zenon
<1> QED BY <1>1, <1>5, <1>6, Zenon

(* The host sees the answer at the next edge. *)
LEMMA AnsweredNext ==
  ASSUME Answered, Logic, Host
  PROVE  /\ WriteGoesOn /\ Commit = FALSE
         /\ hop' = "none" /\ hpc' = wreq.next /\ wreq' = NoWrite
         /\ Quiet'
<1>1. /\ hop = "write" /\ bvalid = TRUE
      /\ awvalid = FALSE /\ wvalid = FALSE /\ have_aw = FALSE /\ have_w = FALSE
      /\ soft_reset = (wreq.next = "off")
  BY DEF Answered
<1>2. Commit = FALSE
  BY <1>1, Zenon DEF Commit
<1>3. WriteGoesOn
  BY <1>1, HostKinds DEF Starts, Poll, ReadGoesOn, Stall
<1>4. /\ hop' = "none" /\ hpc' = wreq.next /\ wreq' = NoWrite
      /\ awvalid' = (awvalid /\ ~ awready) /\ wvalid' = (wvalid /\ ~ wready)
  BY <1>1, <1>3 DEF WriteGoesOn
<1>5. awvalid' = FALSE /\ wvalid' = FALSE
  BY <1>1, <1>4, Zenon
<1>6. /\ awready' = FALSE /\ wready' = FALSE /\ have_aw' = FALSE /\ have_w' = FALSE
      /\ bvalid' = FALSE /\ soft_reset' = FALSE
  <2>1. CASE soft_reset = TRUE
    BY <2>1, Zenon DEF Logic, AxiWrite
  <2>2. CASE soft_reset = FALSE
    BY <1>1, <1>2, <2>2, PortStep, Zenon
  <2> QED BY <1>1, <2>1, <2>2, Zenon
<1> QED BY <1>2, <1>3, <1>4, <1>5, <1>6 DEF Quiet

(* A write names its register, and where the host goes from there. *)
LEMMA RequestNext ==
  ASSUME WriteInv, RequestInv, Logic, Host
  PROVE  WriteInv' /\ RequestInv'
<1>1. CASE Quiet
  <2>1. CASE Starts
    <3>1. Ring \/ NameSlot \/ Reset \/ Enable \/ AckIngress \/ AckEgress
      BY <1>1, <2>1, QuietNext, Zenon DEF Host, Diligent, Starts, StartWrite, Poll, ReadGoesOn,
        WriteGoesOn, Stall, master, Writing
    <3>2. RequestInv'
      <4>1. CASE Ring
        BY <4>1 DEF Ring, StartWrite, RequestInv, Request
      <4>2. CASE NameSlot
        <5>1. PICK s \in SlotIds : StartWrite("INGRESS_TAIL", s, hpc)
          BY <4>2 DEF NameSlot, SlotIds
        <5> QED BY <4>2, <5>1 DEF NameSlot, StartWrite, RequestInv, Request
      <4>3. CASE Reset
        BY <4>3 DEF Reset, StartWrite, RequestInv, Request
      <4>4. CASE Enable
        BY <4>4 DEF Enable, StartWrite, RequestInv, Request
      <4>5. CASE AckIngress \/ AckEgress
        BY <4>5 DEF AckIngress, AckEgress, StartWrite, RequestInv, Request
      <4> QED BY <3>1, <4>1, <4>2, <4>3, <4>4, <4>5
    <3>3. Writing'
      BY <1>1, <2>1, QuietNext, ZenonT(30)
    <3> QED BY <3>2, <3>3, Zenon DEF WriteInv
  <2>2. CASE ~ Starts
    BY <1>1, <2>2, QuietNext, Zenon DEF WriteInv, RequestInv, Quiet
  <2> QED BY <2>1, <2>2
<1>2. CASE Writing
  <2>1. UNCHANGED <<wreq, hpc, patient, rung, released>>
    BY <1>2, WritingNext DEF WriteGoesOn
  <2>2. RequestInv'
    BY <2>1 DEF RequestInv, Request
  <2> QED BY <1>2, <2>2, WritingNext, Zenon DEF WriteInv
<1>3. CASE Answered
  BY <1>3, AnsweredNext DEF WriteInv, RequestInv
<1> QED BY <1>1, <1>2, <1>3 DEF WriteInv

-----------------------------------------------------------------------------
-----------------------------------------------------------------------------
(* What the two blocks make of the registers.                              *)

(* A register both blocks may assign, when only one of them does. *)
LEMMA FlagStep ==
  ASSUME Logic, soft_reset = FALSE
  PROVE  /\ ~ Written("DOORBELL_IN") =>
              doorbell_in' = IF Runs("S_DONE") THEN FALSE ELSE doorbell_in
         /\ Written("DOORBELL_IN") /\ ~ Runs("S_DONE") => doorbell_in' = TRUE
         /\ ~ Written("INGRESS_DONE") =>
              ingress_done' = IF LastByte THEN TRUE ELSE ingress_done
         /\ ~ Written("EGRESS_READY") =>
              egress_ready' = IF Runs("S_DONE") THEN TRUE ELSE egress_ready
         /\ Written("EGRESS_READY") /\ ~ Runs("S_DONE") => egress_ready' = FALSE
         /\ ~ Written("INGRESS_TAIL") /\ ~ Runs("S_DONE") => ingress_tail' = ingress_tail
         /\ doorbell_in' \in {doorbell_in, FALSE, TRUE}
         /\ ingress_done' \in {ingress_done, FALSE, TRUE}
         /\ egress_ready' \in {egress_ready, FALSE, TRUE}
<1>1. /\ Written("DOORBELL_IN") \in BOOLEAN /\ Written("INGRESS_DONE") \in BOOLEAN
      /\ Written("EGRESS_READY") \in BOOLEAN /\ Written("INGRESS_TAIL") \in BOOLEAN
      /\ Runs("S_DONE") \in BOOLEAN /\ LastByte \in BOOLEAN
  BY Zenon DEF Written, Runs, LastByte
<1>2. /\ (soft_reset \/ Runs("S_DONE")) = Runs("S_DONE")
      /\ (soft_reset \/ Written("INGRESS_DONE")) = Written("INGRESS_DONE")
      /\ (soft_reset \/ Written("EGRESS_READY")) = Written("EGRESS_READY")
  BY <1>1, Zenon
<1>3. doorbell_in' \in Driven(doorbell_in,
        When(Runs("S_DONE"), FALSE) \cup When(Written("DOORBELL_IN"), TRUE))
  BY <1>2, Zenon DEF Logic, Doorbell
<1>4. ingress_done' \in Driven(ingress_done,
        When(Written("INGRESS_DONE"), FALSE) \cup When(LastByte, TRUE))
  BY <1>2, Zenon DEF Logic, Completions
<1>5. egress_ready' \in Driven(egress_ready,
        When(Written("EGRESS_READY"), FALSE) \cup When(Runs("S_DONE"), TRUE))
  BY <1>2, Zenon DEF Logic, Completions
<1>6. /\ ~ Runs("S_DONE") /\ ~ Written("DOORBELL_IN") => doorbell_in' = doorbell_in
      /\ Runs("S_DONE") /\ ~ Written("DOORBELL_IN") => doorbell_in' = FALSE
      /\ ~ Runs("S_DONE") /\ Written("DOORBELL_IN") => doorbell_in' = TRUE
      /\ doorbell_in' \in {doorbell_in, FALSE, TRUE}
  <2>1. CASE Runs("S_DONE") /\ Written("DOORBELL_IN")
    BY <1>3, <2>1, Zenon DEF Driven, When
  <2>2. CASE Runs("S_DONE") /\ ~ Written("DOORBELL_IN")
    BY <1>3, <2>2, Zenon DEF Driven, When
  <2>3. CASE ~ Runs("S_DONE") /\ Written("DOORBELL_IN")
    BY <1>3, <2>3, Zenon DEF Driven, When
  <2>4. CASE ~ Runs("S_DONE") /\ ~ Written("DOORBELL_IN")
    BY <1>3, <2>4, Zenon DEF Driven, When
  <2> QED BY <2>1, <2>2, <2>3, <2>4, Zenon
<1>7. /\ ~ Written("INGRESS_DONE") /\ ~ LastByte => ingress_done' = ingress_done
      /\ Written("INGRESS_DONE") /\ ~ LastByte => ingress_done' = FALSE
      /\ ~ Written("INGRESS_DONE") /\ LastByte => ingress_done' = TRUE
      /\ ingress_done' \in {ingress_done, FALSE, TRUE}
  <2>1. CASE Written("INGRESS_DONE") /\ LastByte
    BY <1>4, <2>1, Zenon DEF Driven, When
  <2>2. CASE Written("INGRESS_DONE") /\ ~ LastByte
    BY <1>4, <2>2, Zenon DEF Driven, When
  <2>3. CASE ~ Written("INGRESS_DONE") /\ LastByte
    BY <1>4, <2>3, Zenon DEF Driven, When
  <2>4. CASE ~ Written("INGRESS_DONE") /\ ~ LastByte
    BY <1>4, <2>4, Zenon DEF Driven, When
  <2> QED BY <2>1, <2>2, <2>3, <2>4, Zenon
<1>8. /\ ~ Written("EGRESS_READY") /\ ~ Runs("S_DONE") => egress_ready' = egress_ready
      /\ Written("EGRESS_READY") /\ ~ Runs("S_DONE") => egress_ready' = FALSE
      /\ ~ Written("EGRESS_READY") /\ Runs("S_DONE") => egress_ready' = TRUE
      /\ egress_ready' \in {egress_ready, FALSE, TRUE}
  <2>1. CASE Written("EGRESS_READY") /\ Runs("S_DONE")
    BY <1>5, <2>1, Zenon DEF Driven, When
  <2>2. CASE Written("EGRESS_READY") /\ ~ Runs("S_DONE")
    BY <1>5, <2>2, Zenon DEF Driven, When
  <2>3. CASE ~ Written("EGRESS_READY") /\ Runs("S_DONE")
    BY <1>5, <2>3, Zenon DEF Driven, When
  <2>4. CASE ~ Written("EGRESS_READY") /\ ~ Runs("S_DONE")
    BY <1>5, <2>4, Zenon DEF Driven, When
  <2> QED BY <2>1, <2>2, <2>3, <2>4, Zenon
<1>9. ~ Written("INGRESS_TAIL") /\ ~ Runs("S_DONE") => ingress_tail' = ingress_tail
  BY Zenon DEF Logic, Mirrors, Driven, When
<1> QED BY <1>6, <1>7, <1>8, <1>9, Zenon

(* The pipeline does one of five things. *)
Waits ==
    /\ ~ Runs("S_DONE") /\ ~ LastByte
    /\ UNCHANGED <<state, slot_r, seq_r, scratch_b, last_in_slot, last_out_slot, egress_head>>

Begins ==
    /\ state = "S_IDLE" /\ doorbell_in = TRUE
    /\ ~ Runs("S_DONE") /\ ~ LastByte
    /\ state' = IF USE_HASH THEN "S_HASH" ELSE "S_STORE"
    /\ slot_r' = IngressSlot /\ seq_r' = seq_r + 1
    /\ UNCHANGED <<scratch_b, last_in_slot, last_out_slot, egress_head>>

Reads ==
    /\ state = "S_HASH" /\ state' = "S_STORE"
    /\ ~ Runs("S_DONE") /\ LastByte
    /\ last_in_slot' = slot_r
    /\ UNCHANGED <<slot_r, seq_r, scratch_b, last_out_slot, egress_head>>

Stores ==
    /\ state = "S_STORE" /\ state' = "S_DONE"
    /\ ~ Runs("S_DONE") /\ ~ LastByte
    /\ scratch_b' = [scratch_b EXCEPT ![slot_r] = seq_r]
    /\ UNCHANGED <<slot_r, seq_r, last_in_slot, last_out_slot, egress_head>>

Announces ==
    /\ state = "S_DONE" /\ state' = "S_IDLE"
    /\ Runs("S_DONE") /\ ~ LastByte
    /\ last_out_slot' = slot_r /\ egress_head' = egress_head + 1
    /\ UNCHANGED <<slot_r, seq_r, scratch_b, last_in_slot>>

LEMMA PipeStep ==
  ASSUME OffloadTypeOK, Logic, soft_reset = FALSE
  PROVE  Waits \/ Begins \/ Reads \/ Stores \/ Announces
<1>0. /\ state \in {"S_IDLE", "S_HASH", "S_STORE", "S_DONE"}
      /\ enable \in BOOLEAN /\ doorbell_in \in BOOLEAN
  BY DEF OffloadTypeOK
<1>1. /\ state' = IF enable THEN NextState ELSE state
      /\ slot_r' = IF Taken THEN IngressSlot ELSE slot_r
      /\ seq_r' = IF Taken THEN seq_r + 1 ELSE seq_r
      /\ scratch_b' = IF Runs("S_STORE") THEN [scratch_b EXCEPT ![slot_r] = seq_r]
                      ELSE scratch_b
      /\ last_in_slot' = IF LastByte THEN slot_r ELSE last_in_slot
      /\ last_out_slot' = IF Runs("S_DONE") THEN slot_r ELSE last_out_slot
      /\ egress_head' = IF Runs("S_DONE") THEN egress_head + 1 ELSE egress_head
  BY Zenon DEF Logic, Pipeline, Completions, Mirrors
<1>2. CASE enable = FALSE
  <2>1. ~ Taken /\ ~ LastByte /\ \A s : ~ Runs(s)
    BY <1>2, Zenon DEF Taken, LastByte, Runs
  <2> QED BY <1>1, <1>2, <2>1, Zenon DEF Waits
<1>3. CASE enable = TRUE
  <2>0. \A s : Runs(s) <=> state = s
    BY <1>3, Zenon DEF Runs
  <2>1. CASE state = "S_IDLE" /\ doorbell_in = TRUE
    <3>1. ~ LastByte /\ ~ Runs("S_DONE") /\ ~ Runs("S_STORE")
      BY <2>0, <2>1 DEF LastByte
    <3>2. Taken
      BY <2>0, <2>1, Zenon DEF Taken
    <3>3. NextState = IF USE_HASH THEN "S_HASH" ELSE "S_STORE"
      BY <2>1, OffloadPlAssumption, SMT DEF NextState
    <3> QED BY <1>1, <1>3, <2>1, <3>1, <3>2, <3>3, Zenon DEF Begins
  <2>2. CASE state = "S_IDLE" /\ doorbell_in = FALSE
    <3>1. ~ LastByte /\ ~ Runs("S_DONE") /\ ~ Runs("S_STORE")
      BY <2>0, <2>2 DEF LastByte
    <3>2. ~ Taken
      BY <2>2, Zenon DEF Taken
    <3>3. NextState = state
      BY <2>2, SMT DEF NextState
    <3> QED BY <1>1, <1>3, <3>1, <3>2, <3>3, Zenon DEF Waits
  <2>3. CASE state = "S_HASH" /\ LastByte
    <3>1. ~ Taken /\ ~ Runs("S_DONE") /\ ~ Runs("S_STORE")
      BY <2>0, <2>3 DEF Taken
    <3>2. NextState = "S_STORE"
      BY <2>3 DEF NextState
    <3> QED BY <1>1, <1>3, <2>3, <3>1, <3>2, Zenon DEF Reads
  <2>4. CASE state = "S_HASH" /\ ~ LastByte
    <3>1. ~ Taken /\ ~ Runs("S_DONE") /\ ~ Runs("S_STORE")
      BY <2>0, <2>4 DEF Taken
    <3>2. NextState = state
      BY <2>4 DEF NextState
    <3> QED BY <1>1, <1>3, <2>4, <3>1, <3>2, Zenon DEF Waits
  <2>5. CASE state = "S_STORE"
    <3>1. ~ Taken /\ ~ LastByte /\ ~ Runs("S_DONE") /\ Runs("S_STORE")
      BY <2>0, <2>5 DEF Taken, LastByte
    <3>2. NextState = "S_DONE"
      BY <2>5 DEF NextState
    <3> QED BY <1>1, <1>3, <2>5, <3>1, <3>2, Zenon DEF Stores
  <2>6. CASE state = "S_DONE"
    <3>1. ~ Taken /\ ~ LastByte /\ Runs("S_DONE") /\ ~ Runs("S_STORE")
      BY <2>0, <2>6 DEF Taken, LastByte
    <3>2. NextState = "S_IDLE"
      BY <2>6 DEF NextState
    <3> QED BY <1>1, <1>3, <2>6, <3>1, <3>2, Zenon DEF Announces
  <2> QED BY <1>0, <2>1, <2>2, <2>3, <2>4, <2>5, <2>6, Zenon
<1> QED BY <1>0, <1>2, <1>3, Zenon

(* A register is written in the middle of a write, the one it names. *)
LEMMA CommitIs ==
  ASSUME WriteInv
  PROVE  /\ Commit \in BOOLEAN
         /\ Commit = TRUE => Writing /\ awaddr_r = wreq.addr
         /\ \A addr : Written(addr) <=> Commit = TRUE /\ wreq.addr = addr
<1>1. Commit \in BOOLEAN
  BY Zenon DEF Commit
<1>2. Commit = TRUE => Writing /\ awaddr_r = wreq.addr
  <2> SUFFICES ASSUME Commit = TRUE PROVE Writing /\ awaddr_r = wreq.addr
    OBVIOUS
  <2>1. have_aw /\ have_w
    BY Zenon DEF Commit
  <2>2. Writing
    BY <2>1, Zenon DEF WriteInv, Quiet, Answered
  <2>3. have_aw = TRUE
    BY <2>1, <2>2, Zenon DEF Writing
  <2> QED BY <2>2, <2>3, Zenon DEF Writing
<1> QED BY <1>1, <1>2, Zenon DEF Written

(* A reset, whatever the pipeline was doing. *)
LEMMA ResetStep ==
  ASSUME Logic, soft_reset = TRUE
  PROVE  /\ doorbell_in' = FALSE /\ ingress_done' = FALSE /\ egress_ready' = FALSE
         /\ last_in_slot' = 0 /\ last_out_slot' = 0 /\ slot_r' = slot_r /\ egress_head' = 0
         /\ seq_r' = 0 /\ state' = "S_IDLE" /\ scratch_b' = scratch_b
<1>1. Commit = FALSE /\ (\A a : ~ Written(a)) /\ (\A x : ~ Runs(x)) /\ ~ Taken /\ ~ LastByte
  BY Zenon DEF Commit, Written, Runs, Taken, LastByte
<1>2. doorbell_in' = FALSE /\ ingress_done' = FALSE /\ egress_ready' = FALSE
  BY <1>1, Zenon DEF Logic, Doorbell, Completions, Driven, When
<1>3. /\ last_in_slot' = 0 /\ last_out_slot' = 0 /\ slot_r' = slot_r /\ egress_head' = 0
      /\ seq_r' = 0 /\ state' = "S_IDLE" /\ scratch_b' = scratch_b
  BY <1>1, Zenon DEF Logic, Pipeline, Completions, Mirrors
<1> QED BY <1>2, <1>3

LEMMA HostTypes ==
  ASSUME Host, rung \in Nat
  PROVE  rung' \in Nat
<1>1. rung' = rung \/ rung' = rung + 1 \/ rung' = 0
  BY DEF Host, Diligent, Ring, NameSlot, Reset, Enable, AckIngress, AckEgress, Poll,
    WriteGoesOn, ReadGoesOn, Stall, master
<1> QED BY <1>1

LEMMA OffloadTypes ==
  ASSUME OffloadTypeOK, WriteInv, RequestInv, Logic, Host
  PROVE  OffloadTypeOK'
<1>0. PlSlots \in Nat \ {0} /\ USE_HASH \in BOOLEAN
  BY OffloadPlAssumption
<1>1. soft_reset \in BOOLEAN /\ soft_reset' \in BOOLEAN
  BY RequestNext, Zenon DEF OffloadTypeOK, WriteInv, Quiet, Writing, Answered
<1>2. rung' \in Nat
  BY HostTypes DEF OffloadTypeOK
<1>3. enable' \in BOOLEAN
  <2>1. enable \in BOOLEAN
    BY DEF OffloadTypeOK
  <2>2. enable' = FALSE \/ enable' = enable \/ enable' = (wreq.data = 1)
    BY Zenon DEF Logic, AxiWrite
  <2> QED BY <2>1, <2>2, Zenon
<1>4. ingress_tail' \in SlotIds
  <2>1. \/ ingress_tail' = ingress_tail
        \/ ingress_tail' = 0
        \/ Written("INGRESS_TAIL") /\ ingress_tail' = wreq.data
        \/ ingress_tail' = (ingress_tail + 1) % PlSlots
    <3> DEFINE next == (ingress_tail + 1) % PlSlots
    <3>1. ingress_tail' \in Driven(ingress_tail,
            When(soft_reset, 0) \cup When(Written("INGRESS_TAIL"), wreq.data)
              \cup When(Runs("S_DONE"), next))
      BY Zenon DEF Logic, Mirrors
    <3> HIDE DEF next
    <3>2. \/ ingress_tail' = ingress_tail
          \/ ingress_tail' \in When(soft_reset, 0)
          \/ ingress_tail' \in When(Written("INGRESS_TAIL"), wreq.data)
          \/ ingress_tail' \in When(Runs("S_DONE"), next)
      BY <3>1, Zenon DEF Driven
    <3>3. \/ ingress_tail' = ingress_tail \/ ingress_tail' = 0
          \/ Written("INGRESS_TAIL") /\ ingress_tail' = wreq.data
          \/ ingress_tail' = next
      BY <3>2, Zenon DEF When
    <3> QED BY <3>3 DEF next
  <2>2. Written("INGRESS_TAIL") => wreq.data \in SlotIds
    <3>1. Written("INGRESS_TAIL") => wreq.addr = "INGRESS_TAIL"
      BY CommitIs, Zenon
    <3> QED BY <3>1 DEF RequestInv, Request, NoWrite
  <2>3. ingress_tail \in SlotIds /\ 0 \in SlotIds
    BY <1>0 DEF OffloadTypeOK, SlotIds
  <2>4. (ingress_tail + 1) % PlSlots \in SlotIds
    BY <1>0, <2>3 DEF SlotIds
  <2> QED BY <2>1, <2>2, <2>3, <2>4
<1>5. byte_idx' \in Nat
  <2>1. byte_idx' = 0 \/ byte_idx' = 4 \/ byte_idx' = byte_idx + 1 \/ byte_idx' = byte_idx
    BY Zenon DEF Logic, Pipeline
  <2> QED BY <2>1 DEF OffloadTypeOK
<1>6. CASE soft_reset = FALSE
  <2>1. doorbell_in' \in BOOLEAN /\ ingress_done' \in BOOLEAN /\ egress_ready' \in BOOLEAN
    <3>1. doorbell_in \in BOOLEAN /\ ingress_done \in BOOLEAN /\ egress_ready \in BOOLEAN
      BY DEF OffloadTypeOK
    <3>2. /\ doorbell_in' \in {doorbell_in, FALSE, TRUE}
          /\ ingress_done' \in {ingress_done, FALSE, TRUE}
          /\ egress_ready' \in {egress_ready, FALSE, TRUE}
      BY <1>6, FlagStep, Zenon
    <3> QED BY <3>1, <3>2, Zenon
  <2>2. IngressSlot \in SlotIds
    BY <1>0 DEF IngressSlot, SlotIds, OffloadTypeOK
  <2>3. /\ last_in_slot' \in SlotIds /\ last_out_slot' \in SlotIds /\ slot_r' \in SlotIds
        /\ egress_head' \in Nat /\ seq_r' \in Nat
        /\ state' \in {"S_IDLE", "S_HASH", "S_STORE", "S_DONE"}
        /\ scratch_b' \in [SlotIds -> Nat]
    <3>1. CASE Waits
      BY <3>1 DEF OffloadTypeOK, Waits
    <3>2. CASE Begins
      BY <1>0, <2>2, <3>2 DEF OffloadTypeOK, Begins
    <3>3. CASE Reads
      BY <3>3 DEF OffloadTypeOK, Reads
    <3>4. CASE Stores
      BY <3>4 DEF OffloadTypeOK, Stores
    <3>5. CASE Announces
      BY <3>5 DEF OffloadTypeOK, Announces
    <3> QED BY <1>6, <3>1, <3>2, <3>3, <3>4, <3>5, PipeStep, Zenon
  <2> QED BY <1>1, <1>2, <1>3, <1>4, <1>5, <2>1, <2>3 DEF OffloadTypeOK
<1>7. CASE soft_reset = TRUE
  <2>4. 0 \in SlotIds
    BY <1>0 DEF SlotIds
  <2> QED BY <1>1, <1>2, <1>3, <1>4, <1>5, <1>7, <2>4, ResetStep DEF OffloadTypeOK
<1> QED BY <1>1, <1>6, <1>7, Zenon

-----------------------------------------------------------------------------
(* Slots begun and results announced, against doorbells rung.              *)

Busy == IF state = "S_IDLE" THEN 0 ELSE 1
Waiting == IF doorbell_in = TRUE /\ state = "S_IDLE" THEN 1 ELSE 0
Ringing == IF wreq.addr = "DOORBELL_IN" /\ bvalid = FALSE THEN 1 ELSE 0

(* Each doorbell is one of: on its way to the port, waiting for the        *)
(* pipeline, begun, or overtaken by a later one.                           *)
CountInv ==
    /\ egress_head + Busy <= seq_r
    /\ hpc = "off" => rung = 0 /\ seq_r = 0 /\ doorbell_in = FALSE
    /\ wreq.next # "off" => seq_r + Waiting + Ringing <= rung

(* An edge begins no more slots than were waiting or are rung at it. *)
LEMMA CountStep ==
  ASSUME OffloadTypeOK, Logic, soft_reset = FALSE, egress_head + Busy <= seq_r
  PROVE  /\ egress_head' + Busy' <= seq_r'
         /\ seq_r' + Waiting' <= seq_r + Waiting + 1
         /\ ~ Written("DOORBELL_IN") => seq_r' + Waiting' <= seq_r + Waiting + 0
         /\ /\ seq_r = 0 /\ doorbell_in = FALSE /\ ~ Written("DOORBELL_IN")
            => seq_r' = 0 /\ doorbell_in' = FALSE
<1>0. /\ egress_head \in Nat /\ seq_r \in Nat /\ doorbell_in \in BOOLEAN
      /\ USE_HASH \in BOOLEAN
  BY OffloadPlAssumption DEF OffloadTypeOK
<1>1. ~ Written("DOORBELL_IN") =>
        doorbell_in' = IF Runs("S_DONE") THEN FALSE ELSE doorbell_in
  BY FlagStep, Zenon
<1>2. CASE Waits
  <2>1. ~ Written("DOORBELL_IN") => doorbell_in' = doorbell_in
    BY <1>1, <1>2, Zenon DEF Waits
  <2> QED BY <1>0, <1>2, <2>1 DEF Waits, Busy, Waiting
<1>3. CASE Begins
  <2>1. state = "S_IDLE" /\ doorbell_in = TRUE /\ state' # "S_IDLE"
    BY <1>3 DEF Begins
  <2>2. seq_r' = seq_r + 1 /\ egress_head' = egress_head
    BY <1>3 DEF Begins
  <2> QED BY <1>0, <2>1, <2>2 DEF Busy, Waiting
<1>4. CASE Reads \/ Stores
  <2>1. ~ Written("DOORBELL_IN") => doorbell_in' = doorbell_in
    BY <1>1, <1>4, Zenon DEF Reads, Stores
  <2> QED BY <1>0, <1>4, <2>1 DEF Reads, Stores, Busy, Waiting
<1>5. CASE Announces
  <2>1. ~ Written("DOORBELL_IN") => doorbell_in' = FALSE
    BY <1>1, <1>5, Zenon DEF Announces
  <2> QED BY <1>0, <1>5, <2>1 DEF Announces, Busy, Waiting
<1> QED BY <1>2, <1>3, <1>4, <1>5, PipeStep, Zenon

LEMMA CountNext ==
  ASSUME OffloadTypeOK, WriteInv, RequestInv, CountInv, Logic, Host
  PROVE  CountInv'
<1>0. /\ seq_r \in Nat /\ rung \in Nat /\ seq_r' \in Nat /\ rung' \in Nat
      /\ Waiting \in Nat /\ Waiting' \in Nat /\ Ringing \in Nat /\ Ringing' \in Nat
      /\ 0 \in Nat /\ 1 \in Nat
  BY OffloadTypes DEF OffloadTypeOK, Waiting, Ringing
<1>4. wreq.next # "off" => seq_r + Waiting + Ringing <= rung
  BY DEF CountInv
<1>5. ASSUME NEW k \in {0, 1}, seq_r + Waiting + Ringing <= rung,
             seq_r' + Waiting' <= seq_r + Waiting + k, Ringing' + k + rung <= Ringing + rung'
      PROVE  seq_r' + Waiting' + Ringing' <= rung'
  <2> DEFINE s1 == seq_r'
             w1 == Waiting'
             g1 == Ringing'
             r1 == rung'
  <2>1. /\ s1 \in Nat /\ w1 \in Nat /\ g1 \in Nat /\ r1 \in Nat /\ k \in Nat
        /\ s1 + w1 <= seq_r + Waiting + k /\ g1 + k + rung <= Ringing + r1
    BY <1>0, <1>5, Zenon
  <2>2. SUFFICES s1 + w1 + g1 <= r1
    OBVIOUS
  <2> HIDE DEF s1, w1, g1, r1
  <2> QED BY <1>0, <1>5, <2>1
<1>1. CASE Quiet
  <2>1. /\ Commit = FALSE /\ soft_reset = FALSE /\ wreq = NoWrite
        /\ ~ Written("DOORBELL_IN") /\ (Writing' \/ Quiet')
    BY <1>1, QuietNext, Zenon DEF Quiet, Written
  <2>2. /\ egress_head' + Busy' <= seq_r'
        /\ seq_r = 0 /\ doorbell_in = FALSE => seq_r' = 0 /\ doorbell_in' = FALSE
    BY <2>1, CountStep, Zenon DEF CountInv
  <2>3. /\ seq_r' + Waiting' <= seq_r + Waiting + 0
        /\ seq_r + Waiting + Ringing <= rung /\ Ringing = 0
    <3>1. wreq.next # "off" /\ Ringing = 0
      BY <2>1 DEF NoWrite, Ringing
    <3>2. seq_r' + Waiting' <= seq_r + Waiting + 0
      BY <2>1, CountStep, Zenon DEF CountInv
    <3> QED BY <1>4, <3>1, <3>2
  <2>4. Ringing' + 0 + rung <= Ringing + rung' => seq_r' + Waiting' + Ringing' <= rung'
    BY <1>5, <2>3, Zenon
  <2>5. CASE Ring
    <3>1. hpc \in {"idle", "await"} /\ hpc' = hpc /\ rung' = rung + 1
      BY <2>5 DEF Ring, StartWrite
    <3>2. Ringing' + 0 + rung <= Ringing + rung'
      BY <1>0, <2>3, <3>1 DEF Ringing
    <3> QED BY <2>2, <2>4, <3>1, <3>2 DEF CountInv
  <2>6. CASE Reset
    <3>1. hpc \in {"idle", "await"} /\ hpc' = hpc /\ wreq'.next = "off"
      BY <2>6 DEF Reset, StartWrite
    <3> QED BY <2>2, <3>1 DEF CountInv
  <2>7. CASE ~ Ring /\ ~ Reset
    <3>1. rung' = rung /\ wreq'.addr # "DOORBELL_IN" /\ (hpc' = "off" => hpc = "off")
      BY <1>1, <2>1, <2>7 DEF Host, Diligent, NameSlot, Enable, AckIngress, AckEgress, Poll,
        ReadGoesOn, WriteGoesOn, Stall, master, StartWrite, NoWrite, Quiet
    <3>2. Ringing' + 0 + rung <= Ringing + rung'
      BY <1>0, <2>3, <3>1 DEF Ringing
    <3>3. hpc' = "off" => rung' = 0 /\ seq_r' = 0 /\ doorbell_in' = FALSE
      BY <2>2, <3>1 DEF CountInv
    <3> QED BY <2>2, <2>4, <3>2, <3>3, Zenon DEF CountInv
  <2> QED BY <2>5, <2>6, <2>7
<1>2. CASE Writing
  <2>1. UNCHANGED <<wreq, hpc, rung>> /\ soft_reset = FALSE
    BY <1>2, WritingNext DEF WriteGoesOn
  <2>2. /\ egress_head' + Busy' <= seq_r'
        /\ seq_r' + Waiting' <= seq_r + Waiting + 1
        /\ ~ Written("DOORBELL_IN") => seq_r' + Waiting' <= seq_r + Waiting + 0
        /\ seq_r = 0 /\ doorbell_in = FALSE /\ ~ Written("DOORBELL_IN")
             => seq_r' = 0 /\ doorbell_in' = FALSE
    BY <2>1, CountStep, Zenon DEF CountInv
  <2>3. hpc = "off" => wreq.addr # "DOORBELL_IN"
    BY DEF RequestInv, Request, NoWrite
  <2>4. Written("DOORBELL_IN") => wreq.addr = "DOORBELL_IN"
    BY CommitIs, Zenon
  <2>5. wreq.next # "off" => seq_r' + Waiting' + Ringing' <= rung'
    <3>1. CASE Written("DOORBELL_IN")
      <4>1. Commit = TRUE
        BY <3>1, CommitIs, Zenon
      <4>2. bvalid = FALSE /\ bvalid' = TRUE
        BY <1>2, <4>1, WritingNext, Zenon DEF Writing, Answered
      <4>3. Ringing' + 1 + rung <= Ringing + rung'
        BY <1>0, <2>1, <2>4, <3>1, <4>2 DEF Ringing
      <4> QED BY <1>4, <1>5, <2>2, <4>3, Zenon
    <3>2. CASE ~ Written("DOORBELL_IN")
      <4>1. Ringing' + 0 + rung <= Ringing + rung'
        BY <1>0, <1>2, <2>1 DEF Writing, Ringing
      <4> QED BY <1>4, <1>5, <2>2, <3>2, <4>1, Zenon
    <3> QED BY <3>1, <3>2
  <2> QED BY <2>1, <2>2, <2>3, <2>4, <2>5 DEF CountInv
<1>3. CASE Answered
  <2>1. /\ hpc' = wreq.next /\ wreq' = NoWrite /\ rung' = rung
        /\ Commit = FALSE
    BY <1>3, AnsweredNext DEF WriteGoesOn
  <2>2. CASE wreq.next = "off"
    <3>1. soft_reset = TRUE
      BY <1>3, <2>2, Zenon DEF Answered
    <3>2. rung = 0 /\ Ringing' = 0
      BY <2>1, <2>2 DEF RequestInv, Request, NoWrite, Ringing
    <3> QED BY <2>1, <3>1, <3>2, ResetStep DEF CountInv, Busy, Waiting
  <2>3. CASE wreq.next # "off"
    <3>1. soft_reset = FALSE /\ ~ Written("DOORBELL_IN")
      BY <1>3, <2>1, <2>3, Zenon DEF Answered, Written
    <3>2. egress_head' + Busy' <= seq_r' /\ seq_r' + Waiting' <= seq_r + Waiting + 0
      BY <3>1, CountStep, Zenon DEF CountInv
    <3>3. Ringing' + 0 + rung <= Ringing + rung'
      BY <1>0, <2>1 DEF Ringing, NoWrite
    <3>4. seq_r' + Waiting' + Ringing' <= rung'
      BY <1>4, <1>5, <2>3, <3>2, <3>3, Zenon
    <3> QED BY <2>1, <2>3, <3>2, <3>4 DEF CountInv
  <2> QED BY <2>2, <2>3
<1> QED BY <1>1, <1>2, <1>3 DEF WriteInv

-----------------------------------------------------------------------------
(* The job of a patient host's last doorbell: from no job at all, through  *)
(* the doorbell, to a result that stays until it is acknowledged.          *)

(* The payload has been read, and the host has seen it or still will. *)
InputSeen == USE_HASH => last_in_slot = asked /\ (ingress_done = TRUE \/ released = TRUE)

NoJob ==
    /\ state = "S_IDLE" /\ doorbell_in = FALSE /\ egress_ready = FALSE
    /\ seq_r = rung

Posted ==
    /\ state = "S_IDLE" /\ doorbell_in = FALSE /\ egress_ready = FALSE
    /\ rung = seq_r + 1 /\ ingress_tail = asked

Rung ==
    /\ state = "S_IDLE" /\ doorbell_in = TRUE /\ egress_ready = FALSE
    /\ rung = seq_r + 1 /\ ingress_tail = asked

Working ==
    /\ state \in {"S_HASH", "S_STORE", "S_DONE"} /\ egress_ready = FALSE
    /\ seq_r = rung /\ slot_r = asked
    /\ state # "S_HASH" => InputSeen
    /\ state = "S_DONE" => scratch_b[asked] = rung

Ready ==
    /\ state = "S_IDLE" /\ doorbell_in = FALSE
    /\ seq_r = rung /\ last_out_slot = asked /\ scratch_b[asked] = rung
    /\ InputSeen

Underway == Rung \/ Working \/ (Ready /\ egress_ready = TRUE)

(* Where the job is, from where the host is and what it is writing. *)
Job ==
    /\ hpc \in {"off", "idle"} /\ wreq.addr # "DOORBELL_IN" => NoJob
    /\ wreq.addr = "DOORBELL_IN" /\ bvalid = FALSE => Posted
    /\ wreq.addr = "DOORBELL_IN" /\ bvalid = TRUE => Underway
    /\ hpc \in {"await", "ack_in"} => Underway
    /\ hpc = "ack_out" => Ready /\ (USE_HASH => released = TRUE)
    /\ wreq.addr = "EGRESS_READY" /\ bvalid = TRUE => egress_ready = FALSE

JobInv == patient = TRUE /\ wreq.next # "off" => Job

(* A STATUS on its way that announces a result and no input to release:    *)
(* the result is there, and the input was released before.                 *)
ReadInv ==
    /\ patient \in BOOLEAN /\ rdata \in [ingress : BOOLEAN, egress : BOOLEAN]
    /\ arvalid = (hop = "read") /\ rvalid \in BOOLEAN /\ arready = rvalid
    /\ rvalid = TRUE => hop = "read"
    /\ hop = "read" => hpc = "await"
    /\ /\ rvalid = TRUE /\ patient = TRUE /\ rdata.egress = TRUE /\ rdata.ingress = FALSE
       => egress_ready = TRUE /\ (USE_HASH => released = TRUE)

(* Without a doorbell an idle pipeline only waits. *)
LEMMA IdleStep ==
  ASSUME OffloadTypeOK, Logic, soft_reset = FALSE, state = "S_IDLE", doorbell_in = FALSE
  PROVE  /\ Waits
         /\ ~ Written("DOORBELL_IN") => doorbell_in' = FALSE
         /\ Written("DOORBELL_IN") => doorbell_in' = TRUE
         /\ ~ Written("EGRESS_READY") => egress_ready' = egress_ready
         /\ Written("EGRESS_READY") => egress_ready' = FALSE
         /\ ~ Written("INGRESS_TAIL") => ingress_tail' = ingress_tail
         /\ ~ Written("INGRESS_DONE") => ingress_done' = ingress_done
<1>1. Waits
  BY PipeStep, Zenon DEF Begins, Reads, Stores, Announces
<1>2. ~ Runs("S_DONE") /\ ~ LastByte
  BY <1>1, Zenon DEF Waits
<1> QED BY <1>1, <1>2, FlagStep, Zenon

(* What has been seen of the input stays seen. *)
LEMMA SeenStays ==
  ASSUME InputSeen, last_in_slot' = last_in_slot, asked' = asked,
         released = TRUE => released' = TRUE,
         ingress_done' = ingress_done \/ released = TRUE
  PROVE  InputSeen'
  BY Zenon DEF InputSeen

(* The host's side of a step that leaves the job to the pipeline. *)
Leaves ==
    /\ UNCHANGED <<rung, asked>>
    /\ released = TRUE => released' = TRUE
    /\ Written("INGRESS_DONE") => released = TRUE

LEMMA NoJobStays ==
  ASSUME OffloadTypeOK, Logic, soft_reset = FALSE, NoJob, rung' = rung,
         ~ Written("DOORBELL_IN")
  PROVE  NoJob'
<1>1. state = "S_IDLE" /\ doorbell_in = FALSE /\ egress_ready = FALSE /\ seq_r = rung
  BY DEF NoJob
<1>2. Waits /\ doorbell_in' = FALSE /\ egress_ready' = FALSE
  BY <1>1, IdleStep, Zenon
<1> QED BY <1>1, <1>2 DEF Waits, NoJob

LEMMA PostedStep ==
  ASSUME OffloadTypeOK, Logic, soft_reset = FALSE, Posted, Leaves,
         ~ Written("INGRESS_TAIL")
  PROVE  /\ ~ Written("DOORBELL_IN") => Posted'
         /\ Written("DOORBELL_IN") => Rung'
<1>1. /\ state = "S_IDLE" /\ doorbell_in = FALSE /\ egress_ready = FALSE
      /\ rung = seq_r + 1 /\ ingress_tail = asked
  BY DEF Posted
<1>2. /\ Waits /\ egress_ready' = FALSE /\ ingress_tail' = ingress_tail
      /\ ~ Written("DOORBELL_IN") => doorbell_in' = FALSE
      /\ Written("DOORBELL_IN") => doorbell_in' = TRUE
  BY <1>1, IdleStep, Zenon
<1>3. UNCHANGED <<state, seq_r, rung, asked>>
  BY <1>2 DEF Waits, Leaves
<1> QED BY <1>1, <1>2, <1>3 DEF Posted, Rung

LEMMA ReadyStays ==
  ASSUME OffloadTypeOK, Logic, soft_reset = FALSE, Ready, Leaves,
         ~ Written("DOORBELL_IN")
  PROVE  /\ Ready'
         /\ ~ Written("EGRESS_READY") => egress_ready' = egress_ready
         /\ Written("EGRESS_READY") => egress_ready' = FALSE
<1>1. /\ state = "S_IDLE" /\ doorbell_in = FALSE
      /\ seq_r = rung /\ last_out_slot = asked /\ scratch_b[asked] = rung
      /\ InputSeen
  BY DEF Ready
<1>2. /\ Waits /\ doorbell_in' = FALSE
      /\ ~ Written("INGRESS_DONE") => ingress_done' = ingress_done
  BY <1>1, IdleStep, Zenon
<1>3. /\ UNCHANGED <<state, seq_r, scratch_b, last_in_slot, last_out_slot, rung, asked>>
  BY <1>2 DEF Waits, Leaves
<1>4. InputSeen'
  BY <1>1, <1>2, <1>3, SeenStays, Zenon DEF Leaves
<1>5. Ready'
  BY <1>1, <1>2, <1>3, <1>4 DEF Ready
<1> QED BY <1>1, <1>5, IdleStep, Zenon

LEMMA RungStep ==
  ASSUME OffloadTypeOK, Logic, soft_reset = FALSE, Rung, Leaves,
         ~ Written("DOORBELL_IN"), ~ Written("INGRESS_TAIL"), ~ Written("EGRESS_READY")
  PROVE  Rung' \/ Working'
<1>1. /\ state = "S_IDLE" /\ doorbell_in = TRUE /\ egress_ready = FALSE
      /\ rung = seq_r + 1 /\ ingress_tail = asked
  BY DEF Rung
<1>2. Waits \/ Begins
  BY <1>1, PipeStep, Zenon DEF Reads, Stores, Announces
<1>3. ~ Runs("S_DONE")
  BY <1>2, Zenon DEF Waits, Begins
<1>4. doorbell_in' = TRUE /\ egress_ready' = FALSE /\ ingress_tail' = ingress_tail
  BY <1>1, <1>3, FlagStep, Zenon
<1>5. UNCHANGED <<rung, asked>>
  BY DEF Leaves
<1>6. CASE Waits
  BY <1>1, <1>4, <1>5, <1>6 DEF Waits, Rung
<1>7. CASE Begins
  <2>1. IngressSlot = asked
    BY <1>1, OffloadPlAssumption DEF IngressSlot, OffloadTypeOK, SlotIds
  <2>2. state' = (IF USE_HASH THEN "S_HASH" ELSE "S_STORE") /\ slot_r' = asked
        /\ seq_r' = rung
    BY <1>1, <1>7, <2>1 DEF Begins
  <2>3. state' # "S_HASH" => InputSeen'
    BY <2>2, Zenon DEF InputSeen
  <2> QED BY <1>4, <1>5, <2>2, <2>3, OffloadPlAssumption DEF Working
<1> QED BY <1>2, <1>6, <1>7

LEMMA WorkingStep ==
  ASSUME OffloadTypeOK, Logic, soft_reset = FALSE, Working, Leaves,
         ~ Written("DOORBELL_IN"), ~ Written("EGRESS_READY")
  PROVE  Working' \/ (Ready' /\ egress_ready' = TRUE)
<1>1. /\ state \in {"S_HASH", "S_STORE", "S_DONE"} /\ egress_ready = FALSE
      /\ seq_r = rung /\ slot_r = asked
      /\ state # "S_HASH" => InputSeen
      /\ state = "S_DONE" => scratch_b[asked] = rung
  BY DEF Working
<1>2. UNCHANGED <<rung, asked>>
  BY DEF Leaves
<1>3. /\ ~ Runs("S_DONE") => egress_ready' = FALSE
      /\ Runs("S_DONE") => egress_ready' = TRUE /\ doorbell_in' = FALSE
      /\ ~ LastByte => ingress_done' = ingress_done \/ released = TRUE
  BY <1>1, FlagStep, Zenon DEF Leaves
<1>4. ASSUME InputSeen, last_in_slot' = last_in_slot, ~ LastByte
      PROVE  InputSeen'
  BY <1>2, <1>3, <1>4, SeenStays, Zenon DEF Leaves
<1>5. CASE Waits
  <2>1. UNCHANGED <<state, slot_r, seq_r, scratch_b, last_in_slot>> /\ ~ LastByte
    BY <1>5 DEF Waits
  <2>2. egress_ready' = FALSE
    BY <1>3, <1>5, Zenon DEF Waits
  <2>3. state' # "S_HASH" => InputSeen'
    BY <1>1, <1>4, <2>1, Zenon
  <2> QED BY <1>1, <1>2, <2>1, <2>2, <2>3 DEF Working
<1>6. CASE Reads
  <2>1. state' = "S_STORE" /\ last_in_slot' = asked /\ UNCHANGED <<slot_r, seq_r>>
    BY <1>1, <1>6 DEF Reads
  <2>2. egress_ready' = FALSE
    BY <1>3, <1>6, Zenon DEF Reads
  <2>3. InputSeen'
    <3>1. ingress_done' = TRUE \/ released' = TRUE
      <4>1. ~ Written("INGRESS_DONE") => ingress_done' = TRUE
        BY <1>6, FlagStep, Zenon DEF Reads
      <4> QED BY <4>1, Zenon DEF Leaves
    <3> QED BY <1>2, <2>1, <3>1, Zenon DEF InputSeen
  <2> QED BY <1>1, <1>2, <2>1, <2>2, <2>3 DEF Working
<1>7. CASE Stores
  <2>1. /\ state = "S_STORE" /\ state' = "S_DONE" /\ UNCHANGED <<slot_r, seq_r, last_in_slot>>
        /\ ~ LastByte /\ scratch_b' = [scratch_b EXCEPT ![slot_r] = seq_r]
    BY <1>7 DEF Stores
  <2>2. egress_ready' = FALSE
    BY <1>3, <1>7, Zenon DEF Stores
  <2>3. InputSeen'
    BY <1>1, <1>4, <2>1
  <2>4. scratch_b'[asked] = rung
    BY <1>1, <2>1 DEF OffloadTypeOK
  <2> QED BY <1>1, <1>2, <2>1, <2>2, <2>3, <2>4 DEF Working
<1>8. CASE Announces
  <2>1. /\ state = "S_DONE" /\ state' = "S_IDLE" /\ last_out_slot' = slot_r /\ ~ LastByte
        /\ UNCHANGED <<seq_r, scratch_b, last_in_slot>>
    BY <1>8 DEF Announces
  <2>2. egress_ready' = TRUE /\ doorbell_in' = FALSE
    BY <1>3, <1>8, Zenon DEF Announces
  <2>3. InputSeen'
    BY <1>1, <1>4, <2>1
  <2> QED BY <1>1, <1>2, <2>1, <2>2, <2>3 DEF Ready
<1> QED BY <1>1, <1>5, <1>6, <1>7, <1>8, PipeStep, Zenon DEF Begins

LEMMA UnderwayStays ==
  ASSUME OffloadTypeOK, Logic, soft_reset = FALSE, Underway, Leaves,
         ~ Written("DOORBELL_IN"), ~ Written("INGRESS_TAIL"), ~ Written("EGRESS_READY")
  PROVE  Underway'
<1>1. CASE Rung
  BY <1>1, RungStep, Zenon DEF Underway
<1>2. CASE Working
  BY <1>2, WorkingStep, Zenon DEF Underway
<1>3. CASE Ready /\ egress_ready = TRUE
  BY <1>3, ReadyStays, Zenon DEF Underway
<1> QED BY <1>1, <1>2, <1>3, Zenon DEF Underway

(* Between writes: the host rings, polls, or acts on the STATUS it read. *)
LEMMA JobQuiet ==
  ASSUME OffloadTypeOK, RequestInv, ReadInv, Job, Logic, Host, Quiet, patient = TRUE
  PROVE  JobInv'
<1>1. /\ soft_reset = FALSE /\ Commit = FALSE /\ (\A a : ~ Written(a))
      /\ wreq = NoWrite /\ (Writing' \/ Quiet')
  BY QuietNext, Zenon DEF Quiet, Written
<1>2. bvalid' = FALSE
  BY <1>1 DEF Writing, Quiet
<1>3. /\ hpc \in {"off", "idle"} => NoJob
      /\ hpc \in {"await", "ack_in"} => Underway
      /\ hpc = "ack_out" => Ready /\ (USE_HASH => released = TRUE)
  BY <1>1 DEF Job, NoWrite
<1>4. ASSUME rung' = rung, NoJob PROVE NoJob'
  BY <1>1, <1>4, NoJobStays, Zenon
<1>5. ASSUME Leaves, Underway PROVE Underway'
  BY <1>1, <1>5, UnderwayStays, Zenon
<1>6. ASSUME Leaves, Ready PROVE Ready'
  BY <1>1, <1>6, ReadyStays, Zenon
<1>7. UNCHANGED <<rung, asked>> /\ (released' = released \/ released' = TRUE) => Leaves
  BY <1>1, Zenon DEF Leaves
<1>8. CASE Ring
  <2>1. /\ hpc = "idle" /\ hpc' = hpc /\ rung' = rung + 1 /\ asked' = ingress_tail
        /\ wreq' = [addr |-> "DOORBELL_IN", data |-> 1, next |-> "await"]
    BY <1>8 DEF Ring, StartWrite
  <2>2. state = "S_IDLE" /\ doorbell_in = FALSE /\ egress_ready = FALSE /\ seq_r = rung
    BY <1>3, <2>1 DEF NoJob
  <2>3. /\ Waits /\ doorbell_in' = FALSE /\ egress_ready' = FALSE
        /\ ingress_tail' = ingress_tail
    BY <1>1, <2>2, IdleStep, Zenon
  <2>4. state' = state /\ seq_r' = seq_r
    BY <2>3 DEF Waits
  <2>5. Posted'
    BY <2>1, <2>2, <2>3, <2>4 DEF Posted
  <2> QED BY <1>2, <2>1, <2>5 DEF JobInv, Job
<1>9. CASE NameSlot
  <2>1. PICK x \in SlotIds : StartWrite("INGRESS_TAIL", x, hpc)
    BY <1>9 DEF NameSlot, SlotIds
  <2>2. /\ hpc = "idle" /\ hpc' = hpc /\ rung' = rung
        /\ wreq' = [addr |-> "INGRESS_TAIL", data |-> x, next |-> hpc]
    BY <1>9, <2>1 DEF NameSlot, StartWrite
  <2> QED BY <1>2, <1>3, <1>4, <2>2 DEF JobInv, Job
<1>10. CASE Reset
  BY <1>10 DEF Reset, StartWrite, JobInv
<1>11. CASE Enable
  <2>1. /\ hpc = "off" /\ hpc' = hpc /\ rung' = rung
        /\ wreq' = [addr |-> "CTRL", data |-> 1, next |-> "idle"]
    BY <1>11 DEF Enable, StartWrite
  <2> QED BY <1>2, <1>3, <1>4, <2>1 DEF JobInv, Job
<1>12. CASE AckIngress
  <2>1. /\ hpc = "ack_in" /\ hpc' = hpc /\ UNCHANGED <<rung, asked>> /\ released' = TRUE
        /\ wreq' = [addr |-> "INGRESS_DONE", data |-> 1, next |-> "await"]
    BY <1>12 DEF AckIngress, StartWrite
  <2> QED BY <1>2, <1>3, <1>5, <1>7, <2>1 DEF JobInv, Job
<1>13. CASE AckEgress
  <2>1. /\ hpc = "ack_out" /\ hpc' = hpc /\ UNCHANGED <<rung, asked, released>>
        /\ wreq' = [addr |-> "EGRESS_READY", data |-> 1, next |-> "idle"]
    BY <1>13 DEF AckEgress, StartWrite
  <2> QED BY <1>2, <1>3, <1>6, <1>7, <2>1 DEF JobInv, Job
<1>14. CASE Poll \/ Stall
  <2>1. UNCHANGED <<hpc, wreq, rung, asked, released>>
    BY <1>14, Zenon DEF Poll, Stall, master
  <2> QED BY <1>1, <1>2, <1>3, <1>4, <1>5, <1>6, <1>7, <2>1 DEF JobInv, Job, NoWrite
<1>15. CASE ReadGoesOn
  <2>1. /\ UNCHANGED <<wreq, rung, asked, released>> /\ hpc = "await"
        /\ hpc' \in {"await", "ack_in", "ack_out"}
        /\ hpc' = "ack_out" => rvalid = TRUE /\ rdata.egress = TRUE /\ rdata.ingress = FALSE
    BY <1>15 DEF ReadGoesOn, ReadInv
  <2>2. Underway'
    BY <1>3, <1>5, <1>7, <2>1
  <2>3. hpc' = "ack_out" => Ready' /\ (USE_HASH => released' = TRUE)
    <3>1. SUFFICES ASSUME hpc' = "ack_out" PROVE Ready' /\ (USE_HASH => released' = TRUE)
      BY Zenon
    <3>2. egress_ready = TRUE /\ (USE_HASH => released = TRUE)
      BY <2>1, <3>1 DEF ReadInv
    <3>3. Ready
      BY <1>3, <2>1, <3>2 DEF Underway, Rung, Working
    <3> QED BY <1>6, <1>7, <2>1, <3>2, <3>3
  <2> QED BY <1>1, <1>2, <2>1, <2>2, <2>3 DEF JobInv, Job, NoWrite
<1>16. ~ WriteGoesOn
  BY Zenon DEF WriteGoesOn, Quiet
<1> QED BY <1>8, <1>9, <1>10, <1>11, <1>12, <1>13, <1>14, <1>15, <1>16 DEF Host, Diligent

(* While a write is on its way, and as it takes effect. *)
LEMMA JobWriting ==
  ASSUME OffloadTypeOK, WriteInv, RequestInv, Job, Logic, Host, Writing,
         patient = TRUE, wreq.next # "off"
  PROVE  Job'
<1>1. UNCHANGED <<wreq, hpc, rung, asked, released>> /\ soft_reset = FALSE /\ bvalid = FALSE
  BY WritingNext, Zenon DEF WriteGoesOn, Writing
<1>2. \A a : Written(a) <=> Commit = TRUE /\ wreq.addr = a
  BY CommitIs, Zenon
<1>3. bvalid' = Commit /\ Commit \in BOOLEAN
  BY WritingNext, Zenon DEF Writing, Answered
<1>4. wreq.addr = "INGRESS_DONE" => released = TRUE
  BY DEF RequestInv, Request, NoWrite
<1>5. Leaves
  BY <1>1, <1>2, <1>4, Zenon DEF Leaves
<1>6. CASE wreq.addr = "DOORBELL_IN"
  <2>1. hpc = "idle" /\ Posted
    BY <1>1, <1>6 DEF RequestInv, Request, NoWrite, Job
  <2>2. /\ Commit = FALSE => Posted'
        /\ Commit = TRUE => Rung'
    <3>1. ~ Written("INGRESS_TAIL") /\ (Written("DOORBELL_IN") <=> Commit = TRUE)
      BY <1>2, <1>6
    <3> QED BY <1>1, <1>5, <2>1, <3>1, PostedStep, Zenon
  <2> QED BY <1>1, <1>3, <1>6, <2>1, <2>2 DEF Job, Underway
<1>7. CASE wreq.addr # "DOORBELL_IN"
  <2>1. ~ Written("DOORBELL_IN")
    BY <1>2, <1>7
  <2>2. hpc \in {"off", "idle"} => NoJob'
    BY <1>1, <1>7, <2>1, NoJobStays, Zenon DEF Job
  <2>3. hpc \in {"await", "ack_in"} => Underway'
    <3>1. SUFFICES ASSUME hpc \in {"await", "ack_in"} PROVE Underway'
      OBVIOUS
    <3>2. wreq.addr # "INGRESS_TAIL" /\ wreq.addr # "EGRESS_READY"
      BY <3>1 DEF RequestInv, Request, NoWrite
    <3>3. ~ Written("INGRESS_TAIL") /\ ~ Written("EGRESS_READY")
      BY <1>2, <3>2
    <3> QED BY <1>1, <1>5, <2>1, <3>1, <3>3, UnderwayStays, Zenon DEF Job
  <2>4. hpc = "ack_out" => Ready' /\ (USE_HASH => released' = TRUE)
    BY <1>1, <1>5, <2>1, ReadyStays, Zenon DEF Job
  <2>5. wreq.addr = "EGRESS_READY" /\ Commit = TRUE => egress_ready' = FALSE
    <3>1. SUFFICES ASSUME wreq.addr = "EGRESS_READY", Commit = TRUE
                   PROVE  egress_ready' = FALSE
      OBVIOUS
    <3>2. hpc = "ack_out" /\ Written("EGRESS_READY")
      BY <1>2, <3>1 DEF RequestInv, Request, NoWrite
    <3> QED BY <1>1, <1>5, <2>1, <3>2, ReadyStays, Zenon DEF Job
  <2> QED BY <1>1, <1>3, <1>7, <2>2, <2>3, <2>4, <2>5 DEF Job
<1> QED BY <1>6, <1>7

(* As the host sees the answer and goes on. *)
LEMMA JobAnswered ==
  ASSUME OffloadTypeOK, WriteInv, RequestInv, JobInv, Logic, Host, Answered, patient = TRUE
  PROVE  Job'
<1>1. /\ hpc' = wreq.next /\ wreq' = NoWrite /\ bvalid = TRUE
      /\ UNCHANGED <<rung, asked, released>> /\ (\A a : ~ Written(a))
  <2>1. Commit = FALSE
    BY AnsweredNext
  <2>2. \A a : ~ Written(a)
    BY <2>1, Zenon DEF Written
  <2> QED BY <2>2, AnsweredNext, Zenon DEF WriteGoesOn, Answered
<1>2. Leaves
  BY <1>1 DEF Leaves
<1>3. CASE wreq.next = "off"
  <2>1. soft_reset = TRUE
    BY <1>3, Zenon DEF Answered
  <2>2. rung = 0
    BY <1>3 DEF RequestInv, Request, NoWrite
  <2>3. NoJob'
    BY <1>1, <2>1, <2>2, ResetStep DEF NoJob
  <2> QED BY <1>1, <1>3, <2>3 DEF Job, NoWrite
<1>4. CASE wreq.next # "off"
  <2>1. soft_reset = FALSE
    BY <1>4, Zenon DEF Answered
  <2>2. Job
    BY <1>4 DEF JobInv
  <2>3. wreq.next = "idle" => NoJob'
    <3>1. SUFFICES ASSUME wreq.next = "idle" PROVE NoJob
      BY <1>1, <2>1, NoJobStays, Zenon
    <3>2. \/ wreq.addr \in {"INGRESS_TAIL", "CTRL"} /\ hpc \in {"off", "idle"}
          \/ wreq.addr = "EGRESS_READY" /\ hpc = "ack_out"
      BY <3>1 DEF RequestInv, Request, NoWrite
    <3> QED BY <1>1, <2>2, <3>2 DEF Job, Ready, NoJob
  <2>4. wreq.next = "await" => Underway'
    <3>1. SUFFICES ASSUME wreq.next = "await" PROVE Underway
      BY <1>1, <1>2, <2>1, UnderwayStays, Zenon
    <3>2. wreq.addr = "DOORBELL_IN" \/ hpc \in {"await", "ack_in"}
      BY <3>1 DEF RequestInv, Request, NoWrite
    <3> QED BY <1>1, <2>2, <3>2 DEF Job
  <2>5. wreq.next \in {"none", "idle", "await"}
    BY <1>4 DEF RequestInv, Request, NoWrite
  <2> QED BY <1>1, <2>3, <2>4, <2>5 DEF Job, NoWrite
<1> QED BY <1>3, <1>4

LEMMA JobNext ==
  ASSUME OffloadTypeOK, WriteInv, RequestInv, ReadInv, JobInv, Logic, Host
  PROVE  JobInv'
<1>1. patient' = patient
  BY Zenon DEF Host, Diligent, Ring, NameSlot, Reset, Enable, AckIngress, AckEgress, Poll,
    WriteGoesOn, ReadGoesOn, Stall, master, StartWrite
<1>2. CASE patient = FALSE
  BY <1>1, <1>2 DEF JobInv
<1>3. CASE patient = TRUE
  <2>1. CASE Quiet
    <3>1. Job
      BY <1>3, <2>1 DEF JobInv, Quiet, NoWrite
    <3> QED BY <1>3, <2>1, <3>1, JobQuiet
  <2>2. CASE Writing
    <3>1. wreq' = wreq
      BY <2>2, WritingNext
    <3> QED BY <1>3, <2>2, <3>1, JobWriting DEF JobInv
  <2>3. CASE Answered
    BY <1>3, <2>3, JobAnswered DEF JobInv
  <2> QED BY <2>1, <2>2, <2>3 DEF WriteInv
<1> QED BY <1>2, <1>3, Zenon DEF ReadInv

LEMMA ReadNext ==
  ASSUME OffloadTypeOK, WriteInv, RequestInv, ReadInv, JobInv, Logic, Host
  PROVE  ReadInv'
<1>0. /\ patient \in BOOLEAN /\ rdata \in [ingress : BOOLEAN, egress : BOOLEAN]
      /\ arvalid = (hop = "read") /\ rvalid \in BOOLEAN /\ arready = rvalid
      /\ rvalid = TRUE => hop = "read"
      /\ hop = "read" => hpc = "await"
      /\ ingress_done \in BOOLEAN /\ egress_ready \in BOOLEAN
  <2>1. ingress_done \in BOOLEAN /\ egress_ready \in BOOLEAN
    BY Zenon DEF OffloadTypeOK
  <2>2. patient \in BOOLEAN /\ rdata \in [ingress : BOOLEAN, egress : BOOLEAN]
    BY Zenon DEF ReadInv
  <2>3. arvalid = (hop = "read") /\ rvalid \in BOOLEAN /\ arready = rvalid
    BY Zenon DEF ReadInv
  <2>4. (rvalid = TRUE => hop = "read") /\ (hop = "read" => hpc = "await")
    BY Zenon DEF ReadInv
  <2> QED BY <2>1, <2>2, <2>3, <2>4, Zenon
<1>1. patient' = patient
  BY Zenon DEF Host, Diligent, Ring, NameSlot, Reset, Enable, AckIngress, AckEgress, Poll,
    WriteGoesOn, ReadGoesOn, Stall, master, StartWrite
<1>2. CASE hop = "read"
  <2>1. Quiet /\ ReadGoesOn
    BY <1>2, HostKinds DEF WriteInv, Writing, Answered, Starts, Poll, WriteGoesOn, Stall
  <2>2. /\ soft_reset = FALSE /\ wreq = NoWrite /\ (\A a : ~ Written(a))
    BY <2>1, QuietNext, Zenon DEF Quiet, Written
  <2>3. arvalid = TRUE
    BY <1>0, <1>2, Zenon
  <2>4. CASE rvalid = TRUE
    <3>1. arready' = FALSE /\ rvalid' = FALSE /\ rdata' = rdata
      BY <2>4, Zenon DEF Logic, AxiRead
    <3>2. hop' = "none" /\ arvalid' = (arvalid /\ ~ arready)
      BY <2>1, <2>4 DEF ReadGoesOn
    <3>3. arvalid' = FALSE
      BY <1>0, <2>4, <3>2, Zenon
    <3> QED BY <1>0, <1>1, <3>1, <3>2, <3>3, Zenon DEF ReadInv
  <2>5. CASE rvalid = FALSE
    <3>1. /\ arready' = TRUE /\ rvalid' = TRUE
          /\ rdata' = [ingress |-> ingress_done, egress |-> egress_ready]
      BY <2>3, <2>5, Zenon DEF Logic, AxiRead
    <3>2. hop' = hop /\ hpc' = hpc /\ released' = released /\ arvalid' = (arvalid /\ ~ arready)
      BY <2>1, <2>5 DEF ReadGoesOn
    <3>3. arvalid' = TRUE
      BY <1>0, <2>3, <2>5, <3>2, Zenon
    <3>4. ASSUME patient = TRUE, egress_ready = TRUE, ingress_done = FALSE
          PROVE  egress_ready' = TRUE /\ (USE_HASH => released = TRUE)
      <4>1. Underway
        BY <1>0, <1>2, <2>2, <3>4 DEF JobInv, Job, NoWrite
      <4>2. Ready
        BY <3>4, <4>1 DEF Underway, Rung, Working
      <4>3. state = "S_IDLE" /\ doorbell_in = FALSE /\ (USE_HASH => released = TRUE)
        BY <3>4, <4>2 DEF Ready, InputSeen
      <4>4. egress_ready' = egress_ready
        BY <2>2, <4>3, IdleStep, Zenon
      <4> QED BY <3>4, <4>3, <4>4
    <3> QED BY <1>0, <1>1, <1>2, <3>1, <3>2, <3>3, <3>4, Zenon DEF ReadInv
  <2> QED BY <1>0, <2>4, <2>5, Zenon
<1>3. CASE hop # "read"
  <2>1. arvalid = FALSE /\ rvalid = FALSE
    BY <1>0, <1>3, Zenon
  <2>2. arready' = FALSE /\ rvalid' = FALSE /\ rdata' = rdata
    BY <2>1, Zenon DEF Logic, AxiRead
  <2>3. CASE Poll
    <3>1. arvalid' = TRUE /\ hop' = "read" /\ hpc' = "await"
      BY <2>3 DEF Poll
    <3> QED BY <1>0, <1>1, <2>2, <3>1, Zenon DEF ReadInv
  <2>4. CASE ~ Poll
    <3>1. arvalid' = arvalid /\ hop' # "read"
      <4>1. CASE Starts
        <5>1. \E now \in BOOLEAN : hop' = IF now THEN "write" ELSE "addr"
          BY <4>1, Zenon DEF Starts, StartWrite
        <5> QED BY <4>1, <5>1 DEF Starts, StartWrite
      <4>2. CASE ~ Starts
        BY <1>3, <2>4, <4>2, HostKinds, Zenon DEF ReadGoesOn, WriteGoesOn, Stall, master
      <4> QED BY <4>1, <4>2
    <3> QED BY <1>0, <1>1, <2>1, <2>2, <3>1, Zenon DEF ReadInv
  <2> QED BY <2>3, <2>4
<1> QED BY <1>2, <1>3

-----------------------------------------------------------------------------
OffloadPlInv ==
    OffloadTypeOK /\ WriteInv /\ RequestInv /\ CountInv /\ ReadInv /\ JobInv

LEMMA OffloadPlInit == PlInit => OffloadPlInv
<1> SUFFICES ASSUME PlInit PROVE OffloadPlInv
  OBVIOUS
<1>1. OffloadTypeOK
  <2>1. 0 \in SlotIds /\ scratch_b \in [SlotIds -> Nat]
    BY OffloadPlAssumption DEF PlInit, SlotIds
  <2> QED BY <2>1, Zenon DEF PlInit, OffloadTypeOK
<1>2. WriteInv /\ RequestInv
  BY DEF PlInit, WriteInv, Quiet, RequestInv
<1>3. CountInv
  BY DEF PlInit, CountInv, Busy, Waiting, Ringing, NoWrite
<1>4. ReadInv
  BY Zenon DEF PlInit, ReadInv, NoStatus
<1>5. JobInv
  BY DEF PlInit, JobInv, Job, NoJob, NoWrite
<1> QED BY <1>1, <1>2, <1>3, <1>4, <1>5 DEF OffloadPlInv

LEMMA OffloadPlNext == OffloadPlInv /\ [DesignsNext]_all_vars => OffloadPlInv'
<1> SUFFICES ASSUME OffloadPlInv, [DesignsNext]_all_vars PROVE OffloadPlInv'
  OBVIOUS
<1>1. CASE Logic /\ Host
  BY <1>1, OffloadTypes, RequestNext, CountNext, ReadNext, JobNext DEF OffloadPlInv
<1>2. CASE UNCHANGED pl_vars
  <2>1. UNCHANGED <<doorbell_in, ingress_done, egress_ready, last_in_slot, last_out_slot,
           ingress_tail, egress_head, enable, soft_reset, awaddr_r, have_aw, have_w,
           awready, wready, bvalid, arready, rvalid, rdata, state, slot_r, byte_idx,
           seq_r, scratch_b, patient, hpc, hop, awvalid, wvalid, wreq, arvalid, rung,
           asked, released>>
    BY <1>2 DEF pl_vars, flags, port, pipeline, master
  <2>2. OffloadTypeOK'
    BY <2>1 DEF OffloadPlInv, OffloadTypeOK
  <2>3. WriteInv'
    <3>1. Quiet' = Quiet
      BY <2>1, Zenon DEF Quiet
    <3>2. Writing' = Writing
      BY <2>1, Zenon DEF Writing
    <3>3. Answered' = Answered
      BY <2>1, Zenon DEF Answered
    <3> QED BY <3>1, <3>2, <3>3, Zenon DEF OffloadPlInv, WriteInv
  <2>4. RequestInv'
    BY <2>1, Zenon DEF OffloadPlInv, RequestInv, Request
  <2>5. CountInv'
    BY <2>1, Zenon DEF OffloadPlInv, CountInv, Busy, Waiting, Ringing
  <2>6. ReadInv'
    BY <2>1, Zenon DEF OffloadPlInv, ReadInv
  <2>7. JobInv'
    <3>1. NoJob' = NoJob /\ Posted' = Posted /\ Rung' = Rung /\ InputSeen' = InputSeen
      BY <2>1, Zenon DEF NoJob, Posted, Rung, InputSeen
    <3>2. Working' = Working /\ Ready' = Ready
      BY <2>1, <3>1, Zenon DEF Working, Ready
    <3> QED BY <2>1, <3>1, <3>2, Zenon DEF OffloadPlInv, JobInv, Job, Underway
  <2> QED BY <2>2, <2>3, <2>4, <2>5, <2>6, <2>7 DEF OffloadPlInv
<1> QED BY <1>1, <1>2 DEF DesignsNext, SpscEdge, OffloadEdge, all_vars

(* rb_offload_pl.v: never more slots begun, nor results announced, than    *)
(* doorbells rung, although the port and the pipeline assign doorbell_in   *)
(* at the same edge and either assignment may stay.                        *)
THEOREM WorkIsAsked == DesignsSpec => []NoSpuriousWork
<1>1. OffloadPlInv => NoSpuriousWork
  <2> SUFFICES ASSUME OffloadPlInv, hpc # "off", wreq.next # "off"
               PROVE  egress_head <= seq_r /\ seq_r <= rung
    BY DEF NoSpuriousWork
  <2>1. egress_head \in Nat /\ seq_r \in Nat /\ rung \in Nat
    BY DEF OffloadPlInv, OffloadTypeOK
  <2>2. Busy \in Nat /\ Waiting \in Nat /\ Ringing \in Nat
    BY DEF Busy, Waiting, Ringing
  <2>3. egress_head + Busy <= seq_r /\ seq_r + Waiting + Ringing <= rung
    BY DEF OffloadPlInv, CountInv
  <2> QED BY <2>1, <2>2, <2>3
<1>2. DesignsInit => OffloadPlInv
  BY OffloadPlInit DEF DesignsInit
<1> QED BY <1>1, <1>2, OffloadPlNext, PTL DEF DesignsSpec

(* rb_offload_pl.v: a patient host that finds EGRESS_READY finds the       *)
(* result of its own doorbell in last_out_slot, and has released the input *)
(* slot before if the payload is read at all.                              *)
THEOREM ResultBelongs == DesignsSpec => []ResultIsOwn
<1>1. OffloadPlInv => ResultIsOwn
  <2> SUFFICES ASSUME OffloadPlInv, patient, hpc = "ack_out"
               PROVE  /\ scratch_b[last_out_slot] = rung /\ last_out_slot = asked
                      /\ USE_HASH => released /\ last_in_slot = asked
    BY Zenon DEF ResultIsOwn
  <2>1. patient = TRUE
    <3>1. ReadInv
      BY Zenon DEF OffloadPlInv
    <3> QED BY <3>1, Zenon DEF ReadInv
  <2>2. wreq.next # "off"
    BY DEF OffloadPlInv, RequestInv, Request, NoWrite
  <2>3. Ready /\ (USE_HASH => released = TRUE)
    BY <2>1, <2>2 DEF OffloadPlInv, JobInv, Job
  <2> QED BY <2>3, Zenon DEF Ready, InputSeen
<1>2. DesignsInit => OffloadPlInv
  BY OffloadPlInit DEF DesignsInit
<1> QED BY <1>1, <1>2, OffloadPlNext, PTL DEF DesignsSpec

(* Of the two designs the ring controller is as in PlSpsc alone, so that   *)
(* PlHeldIsCurrent and PlSlotsAreApart hold of both together.              *)
LEMMA ControllerAlone == DesignsSpec => Spec
<1>1. DesignsInit => Init
  BY DEF DesignsInit
<1>2. [DesignsNext]_all_vars => [Clock]_vars
  BY DEF DesignsNext, SpscEdge, OffloadEdge, all_vars
<1> QED BY <1>1, <1>2, PTL DEF DesignsSpec, Spec

=============================================================================
