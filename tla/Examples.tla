------------------------------ MODULE Examples ------------------------------
(***************************************************************************)
(* One of the example programs of modules Ipc and Inproc, chosen in the    *)
(* initial state.  Processes and threads are scheduled fairly; signals and *)
(* the start of a reader may never come.                                   *)
(***************************************************************************)
EXTENDS Ipc, Inproc

vars == <<shared, ipc, inproc>>

InprocIdle ==
    /\ mpc = "none"
    /\ stop_reading = FALSE /\ full_latch = FALSE /\ stop = FALSE /\ readable = FALSE

IpcIdle ==
    /\ shm = "none" /\ readers = 0
    /\ last_seq = 0 /\ first_seen = 0 /\ gaps = 0 /\ gap_items = 0 /\ origin = 0

Init == (IpcInit /\ InprocIdle) \/ (InprocInit /\ IpcIdle)

Next ==
    \/ IpcNext /\ UNCHANGED inproc
    \/ InprocNext /\ UNCHANGED ipc

Spec ==
    /\ Init /\ [][Next]_vars
    /\ WF_vars(Writer /\ UNCHANGED inproc) /\ WF_vars(Reader /\ UNCHANGED inproc)
    /\ WF_vars(Producer /\ UNCHANGED ipc) /\ WF_vars(Consumer /\ UNCHANGED ipc)
    /\ WF_vars(Main /\ UNCHANGED ipc)

=============================================================================
