------------------------------ MODULE Offload ------------------------------
(***************************************************************************)
(* The two processes of examples/zynq_offload: cpu_host.c publishes        *)
(* messages on ring A and takes results from ring B, fpga_stub.c takes     *)
(* messages from A and publishes one result for each on B.                 *)
(*                                                                         *)
(* Module Rb shows that a ring is a bounded queue, so a ring is here the   *)
(* number of its publications and of its releases.  What a queue hides and *)
(* the host's loop depends on is kept: a load of the other side's counter  *)
(* may return an old value, but never one older than what an acquire load  *)
(* has already ordered before it.  The stub publishes result k on B before *)
(* it releases message k on A; so a host that has seen tail_seen releases  *)
(* on A cannot find B empty while one of the first tail_seen results is    *)
(* there.                                                                  *)
(*                                                                         *)
(* The doorbell words cpu_to_fpga and fpga_to_cpu are written and cleared, *)
(* and no decision of either program depends on them: they are left out.   *)
(* So are the returns on an error of rb_acquire or rb_publish other than   *)
(* RB_ERR_FULL, which a ring that stays initialised does not give.         *)
(***************************************************************************)
EXTENDS Integers

CONSTANTS
    capacity,           \* of both rings; their limit too
    DUMP_TS_SLOTS,      \* size of g_send_ns
    Total               \* bound: messages the host tries to send

ASSUME OffloadAssumption ==
    /\ capacity \in Nat \ {0}
    /\ DUMP_TS_SLOTS \in Nat /\ DUMP_TS_SLOTS >= 2 * capacity
    /\ Total \in Nat

VARIABLES
    shm,                \* the region: "none", "empty" (size 0), "sized"
    ready,              \* cfg.ready, with cfg.magic
    pub_a, rel_a,       \* ring A: messages published by the host, released by the stub
    pub_b, rel_b,       \* ring B: results published by the stub, released by the host
    r_seq,              \* r->seq of the k-th result published
    seq_in, seq_out,    \* the counters beside the doorbells
    mode,               \* -m wait, -m drop or -R
    hpc, attempted, dropped,
    tail_seen,          \* the largest tail of ring A the host has loaded
    send_ns,            \* g_send_ns; a time stamp is the message it was taken for
    spc

ring_a == <<pub_a, rel_a>>
ring_b == <<pub_b, rel_b, r_seq>>
host == <<hpc, attempted, dropped, tail_seen, send_ns>>
vars == <<shm, ready, ring_a, ring_b, seq_in, seq_out, mode, host, spc>>

NoResults == [k \in 1 .. Total |-> 0]

(* There is no region, or one that an earlier run left: its rings and      *)
(* counters are anything, and its last host has cleared cfg.ready.         *)
Init ==
    /\ shm \in {"none", "sized"} /\ ready = 0
    /\ \E old \in IF shm = "none" THEN {0} ELSE {0, 1} :
           /\ pub_a = old /\ rel_a = 0
           /\ pub_b = 0 /\ rel_b = 0
           /\ seq_in = old /\ seq_out = old
    /\ r_seq = NoResults
    /\ mode \in {"wait", "drop", "roundtrip"}
    /\ hpc = "start" /\ attempted = 0 /\ dropped = 0 /\ tail_seen = 0
    /\ send_ns = [i \in 0 .. DUMP_TS_SLOTS - 1 |-> 0]
    /\ spc = "start"

-----------------------------------------------------------------------------
(* The host.                                                               *)

(* map_shared: shm_open with O_CREAT, then ftruncate. *)
map_shared ==
    /\ \/ /\ hpc = "start"
          /\ shm' = IF shm = "none" THEN "empty" ELSE shm
          /\ hpc' = "truncate"
       \/ /\ hpc = "truncate"
          /\ shm' = "sized"
          /\ hpc' = "init"
    /\ UNCHANGED <<ready, ring_a, ring_b, seq_in, seq_out, mode, attempted,
                   dropped, tail_seen, send_ns, spc>>

(* Mutant: the counters beside the doorbells keep the last run's values. *)
InitRingsOnly ==
    /\ hpc = "init"
    /\ pub_a' = 0 /\ rel_a' = 0
    /\ pub_b' = 0 /\ rel_b' = 0 /\ r_seq' = NoResults
    /\ seq_in' = 0
    /\ ready' = 1
    /\ hpc' = "loop"
    /\ UNCHANGED <<shm, seq_out, mode, attempted, dropped, tail_seen, send_ns,
                   spc>>

(* Both rings and the counters are reset before cfg.ready is set. *)
init_rings ==
    /\ hpc = "init"
    /\ pub_a' = 0 /\ rel_a' = 0
    /\ pub_b' = 0 /\ rel_b' = 0 /\ r_seq' = NoResults
    /\ seq_in' = 0 /\ seq_out' = 0
    /\ ready' = 1
    /\ hpc' = "loop"
    /\ UNCHANGED <<shm, mode, attempted, dropped, tail_seen, send_ns, spc>>

(* The head of main's loop and of run_roundtrip's: another message, ... *)
LoopAgain ==
    /\ hpc = "loop" /\ attempted < Total
    /\ IF mode = "roundtrip"
       THEN hpc' = "publish" /\ seq_in' = seq_in + 1
       ELSE hpc' = "drain" /\ UNCHANGED seq_in
    /\ UNCHANGED <<shm, ready, ring_a, ring_b, seq_out, mode, attempted, dropped,
                   tail_seen, send_ns, spc>>

(* ... or none: the count of -n is reached or the time of -t is up. *)
LoopEnd ==
    /\ hpc = "loop"
    /\ IF mode = "roundtrip"
       THEN hpc' = "done" /\ ready' = 0
       ELSE hpc' = "final" /\ UNCHANGED ready
    /\ UNCHANGED <<shm, ring_a, ring_b, seq_in, seq_out, mode, attempted, dropped,
                   tail_seen, send_ns, spc>>

(* rb_consume and rb_release on ring B. *)
TakeResult == rel_b < pub_b /\ rel_b' = rel_b + 1

(* The drain of ring B before each message: takes a result, ... *)
DrainLive ==
    /\ hpc = "drain"
    /\ TakeResult
    /\ UNCHANGED <<shm, ready, ring_a, pub_b, r_seq, seq_in, seq_out, mode, host,
                   spc>>

(* Mutant: the host publishes without looking at ring B first. *)
DrainSkipped ==
    /\ hpc = "drain"
    /\ seq_in' = seq_in + 1
    /\ hpc' = "publish"
    /\ UNCHANGED <<shm, ready, ring_a, ring_b, seq_out, mode, attempted, dropped,
                   tail_seen, send_ns, spc>>

(* ... and ends when rb_consume finds none: every result the host is bound *)
(* to see is taken.                                                        *)
DrainEnd ==
    /\ hpc = "drain"
    /\ rel_b >= tail_seen
    /\ seq_in' = seq_in + 1
    /\ hpc' = "publish"
    /\ UNCHANGED <<shm, ready, ring_a, ring_b, seq_out, mode, attempted, dropped,
                   tail_seen, send_ns, spc>>

(* Mutant: half the slots. *)
SlotHalf(seq) == seq % capacity

(* The slot of g_send_ns for a message or a result. *)
Slot(seq) == seq % DUMP_TS_SLOTS

(* rb_acquire, which has loaded tail, finds room, and the message goes out. *)
Accepted(tail) ==
    /\ pub_a - tail < capacity
    /\ pub_a' = pub_a + 1
    /\ IF mode = "roundtrip"
       THEN hpc' = "await" /\ UNCHANGED <<attempted, send_ns>>
       ELSE /\ hpc' = "loop"
            /\ attempted' = attempted + 1
            /\ send_ns' = [send_ns EXCEPT ![Slot(seq_in)] = pub_a']
    /\ UNCHANGED dropped

(* RB_ERR_FULL with -m drop; otherwise publish_payload tries again. *)
Refused(tail) ==
    /\ pub_a - tail >= capacity /\ mode = "drop"
    /\ attempted' = attempted + 1
    /\ dropped' = dropped + 1
    /\ hpc' = "loop"
    /\ UNCHANGED <<pub_a, send_ns>>

(* publish_payload, and what its caller does with the answer.  The tail    *)
(* that rb_acquire loads may be old.                                       *)
publish_payload ==
    /\ hpc = "publish"
    /\ \E tail \in tail_seen .. rel_a :
           tail_seen' = tail /\ (Accepted(tail) \/ Refused(tail))
    /\ UNCHANGED <<shm, ready, rel_a, ring_b, seq_in, seq_out, mode, spc>>

(* The rest of an iteration of run_roundtrip: the next result must be the  *)
(* answer.  A wrong one ends the program, and cfg.ready stays.             *)
run_roundtrip ==
    /\ hpc = "await"
    /\ TakeResult
    /\ IF r_seq[rel_b'] = seq_in
       THEN hpc' = "loop" /\ attempted' = attempted + 1
       ELSE hpc' = "failed" /\ UNCHANGED attempted
    /\ UNCHANGED <<shm, ready, ring_a, pub_b, r_seq, seq_in, seq_out, mode,
                   dropped, tail_seen, send_ns, spc>>

(* drain_results: until there are as many results as messages; then main   *)
(* clears cfg.ready and returns 0, ...                                     *)
drain_results ==
    /\ hpc = "final"
    /\ \/ /\ rel_b < pub_a
          /\ TakeResult
          /\ UNCHANGED <<ready, hpc>>
       \/ /\ rel_b = pub_a
          /\ hpc' = "done" /\ ready' = 0
          /\ UNCHANGED rel_b
    /\ UNCHANGED <<shm, ring_a, pub_b, r_seq, seq_in, seq_out, mode, attempted,
                   dropped, tail_seen, send_ns, spc>>

(* ... or until too many polls found nothing; then it returns 2. *)
DrainIdle ==
    /\ hpc = "final"
    /\ rel_b < pub_a
    /\ hpc' = "short" /\ ready' = 0
    /\ UNCHANGED <<shm, ring_a, ring_b, seq_in, seq_out, mode, attempted, dropped,
                   tail_seen, send_ns, spc>>

-----------------------------------------------------------------------------
(* The stub.                                                               *)

(* map_shared maps the region whatever its size. *)
StubMap ==
    /\ spc = "start"
    /\ shm # "none"
    /\ spc' = "wait"
    /\ UNCHANGED <<shm, ready, ring_a, ring_b, seq_in, seq_out, mode, host>>

(* main reads cfg.ready; the read faults while the region has no size. *)
StubReady ==
    /\ spc = "wait"
    /\ \/ shm = "empty" /\ spc' = "gone"
       \/ shm = "sized" /\ ready = 1 /\ spc' = "loop"
    /\ UNCHANGED <<shm, ready, ring_a, ring_b, seq_in, seq_out, mode, host>>

(* process_one: a message is read, hashed and numbered, ... *)
StubConsume ==
    /\ spc = "loop"
    /\ rel_a < pub_a
    /\ seq_out' = seq_out + 1
    /\ spc' = "emit"
    /\ UNCHANGED <<shm, ready, ring_a, ring_b, seq_in, mode, host>>

(* Mutant: a full ring B loses the result. *)
StubPublishOrDrop ==
    /\ spc = "emit"
    /\ IF pub_b - rel_b < capacity
       THEN pub_b' = pub_b + 1 /\ r_seq' = [r_seq EXCEPT ![pub_b'] = seq_out]
       ELSE UNCHANGED <<pub_b, r_seq>>
    /\ spc' = "release"
    /\ UNCHANGED <<shm, ready, ring_a, rel_b, seq_in, seq_out, mode, host>>

(* ... its result is published, after spinning while ring B is full, ... *)
StubPublish ==
    /\ spc = "emit"
    /\ pub_b - rel_b < capacity
    /\ pub_b' = pub_b + 1
    /\ r_seq' = [r_seq EXCEPT ![pub_b'] = seq_out]
    /\ spc' = "release"
    /\ UNCHANGED <<shm, ready, ring_a, rel_b, seq_in, seq_out, mode, host>>

(* ... and the message is released. *)
StubRelease ==
    /\ spc = "release"
    /\ rel_a' = rel_a + 1
    /\ spc' = "loop"
    /\ UNCHANGED <<shm, ready, pub_a, ring_b, seq_in, seq_out, mode, host>>

(* The stub stops: no region or no cfg.ready in time, nothing to do for    *)
(* too long, or nothing to do and cfg.ready cleared.                       *)
StubQuit ==
    /\ \/ spc = "start"
       \/ spc = "wait" /\ ready = 0
       \/ spc = "loop" /\ rel_a = pub_a
    /\ spc' = "gone"
    /\ UNCHANGED <<shm, ready, ring_a, ring_b, seq_in, seq_out, mode, host>>

Host == \/ map_shared \/ init_rings \/ LoopAgain \/ LoopEnd \/ DrainLive
        \/ DrainEnd \/ publish_payload \/ run_roundtrip \/ drain_results

Stub == StubMap \/ StubReady \/ StubConsume \/ StubPublish \/ StubRelease

Next == Host \/ DrainIdle \/ Stub \/ StubQuit

Spec == Init /\ [][Next]_vars

(* The processes are scheduled.  Running out of patience is not assumed. *)
FairSpec == Spec /\ WF_vars(Host) /\ WF_vars(Stub)

-----------------------------------------------------------------------------
TypeOK ==
    /\ shm \in {"none", "empty", "sized"} /\ ready \in {0, 1}
    /\ pub_a \in Nat /\ rel_a \in Nat /\ pub_b \in Nat /\ rel_b \in Nat
    /\ r_seq \in [1 .. Total -> Nat]
    /\ seq_in \in Nat /\ seq_out \in Nat
    /\ mode \in {"wait", "drop", "roundtrip"}
    /\ hpc \in {"start", "truncate", "init", "loop", "drain", "publish", "await",
                "final", "done", "short", "failed"}
    /\ attempted \in 0 .. Total /\ dropped \in Nat /\ tail_seen \in Nat
    /\ send_ns \in [0 .. DUMP_TS_SLOTS - 1 -> Nat]
    /\ spc \in {"start", "wait", "loop", "emit", "release", "gone"}

(* Since init_rings: what the counters of the two processes say about each *)
(* other.  The stub is at most one result ahead of its releases, and the   *)
(* host has at most capacity messages in ring A that it has not seen       *)
(* released.                                                               *)
CountersInv ==
    /\ pub_b = IF spc = "release" THEN rel_a + 1 ELSE rel_a
    /\ seq_out = IF spc = "emit" THEN pub_b + 1 ELSE pub_b
    /\ seq_out <= pub_a /\ rel_b <= pub_b /\ tail_seen <= rel_a
    /\ pub_a - tail_seen <= capacity /\ pub_b - rel_b <= capacity

(* The stub numbers its results as the messages are numbered in ring A. *)
ResultsInv == \A k \in 1 .. pub_b : r_seq[k] = k

(* Where the host is, and how far. *)
HostInv ==
    /\ pub_a + dropped = IF hpc \in {"await", "failed"} THEN attempted + 1
                         ELSE attempted
    /\ seq_in = IF hpc \in {"publish", "await", "failed"} THEN attempted + 1
                ELSE attempted
    /\ hpc \in {"drain", "publish", "await"} => attempted < Total
    /\ hpc = "publish" => rel_b >= tail_seen
    /\ mode # "drop" => dropped = 0
    /\ IF mode = "roundtrip"
       THEN /\ hpc \in {"loop", "publish", "await", "done"}
            /\ pub_a = IF hpc = "await" THEN rel_b + 1 ELSE rel_b
       ELSE hpc \in {"loop", "drain", "publish", "final", "done", "short"}

(* In wait mode the time of every message without a result taken is kept. *)
StampsInv ==
    mode = "wait" => \A k \in rel_b + 1 .. pub_a : send_ns[Slot(k)] = k

(* Before init_rings the stub touches neither ring; after it the four      *)
(* invariants above hold.  Their conjunction is inductive.                 *)
OffloadInv ==
    /\ TypeOK
    /\ IF hpc \in {"start", "truncate", "init"}
       THEN /\ ready = 0 /\ spc \in {"start", "wait", "gone"}
            /\ attempted = 0 /\ dropped = 0 /\ tail_seen = 0
       ELSE CountersInv /\ ResultsInv /\ HostInv /\ StampsInv

(* The two rings never block each other: the host does not spin on a full  *)
(* ring A in publish_payload while the stub spins on a full ring B in      *)
(* process_one, since the host drained ring B before it, and what it saw   *)
(* of ring A's tail obliges it to see the results.                         *)
NoMutualWait ==
    ~ /\ hpc = "publish" /\ mode # "drop" /\ pub_a - rel_a >= capacity
      /\ spc = "emit" /\ pub_b - rel_b >= capacity

(* With -m wait, g_send_ns[r->seq % DUMP_TS_SLOTS] is the time at which the *)
(* message that r answers was sent, for every result in ring B: numbers     *)
(* given by two processes agree, and no slot is reused too early.           *)
LatencyPaired ==
    mode = "wait" /\ hpc \in {"loop", "drain", "publish", "final"} =>
        \A k \in rel_b + 1 .. pub_b : send_ns[Slot(r_seq[k])] = k

(* run_roundtrip never meets a result of another number, whatever an       *)
(* earlier run left in the region.                                         *)
RoundtripMatches == hpc # "failed"

(* The host's program ends with a result for every message published,      *)
(* unless it ran out of patience or the stub left.                         *)
AllAnswered ==
    hpc = "loop" ~> \/ hpc = "done" /\ rel_b = pub_a
                    \/ hpc = "short" \/ spc = "gone"

=============================================================================
