----------------------------- MODULE PlDesigns -----------------------------
(***************************************************************************)
(* The two Verilog files of the Zynq example, each on its own clock: the   *)
(* ring controller of rb_spsc.v and the pipeline of rb_offload_pl.v, which *)
(* does not instantiate it.  A behaviour is one of the two.                *)
(***************************************************************************)
EXTENDS PlSpsc, OffloadPl

VARIABLE design     \* the file whose logic runs

all_vars == <<vars, pl_vars, design>>

DesignsInit == Init /\ PlInit /\ design \in {"rb_spsc", "rb_offload_pl"}

SpscEdge == design = "rb_spsc" /\ Clock /\ UNCHANGED <<pl_vars, design>>

OffloadEdge(HostStep) ==
    /\ design = "rb_offload_pl"
    /\ Logic /\ HostStep
    /\ UNCHANGED <<vars, design>>

DesignsNext == SpscEdge \/ OffloadEdge(Host)

(* The clock runs; the consuming logic does not keep a slot for ever, and  *)
(* the host keeps polling and acknowledging.                               *)
DesignsSpec ==
    /\ DesignsInit /\ [][DesignsNext]_all_vars
    /\ WF_all_vars(DesignsNext)
    /\ WF_all_vars(SpscEdge /\ cstate = "hold" /\ cstate' = "done")
    /\ WF_all_vars(OffloadEdge(Diligent))

=============================================================================
