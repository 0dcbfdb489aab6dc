-------------------------------- MODULE Ipc --------------------------------
(***************************************************************************)
(* The pairs of programs of examples/ that share a ring in a POSIX shared  *)
(* memory segment: ipc_writer and ipc_reader, ipc_burst_writer and         *)
(* ipc_slow_reader, ipc_bench_writer and ipc_bench_reader.                 *)
(*                                                                         *)
(* Each process may be interrupted (SIGINT sets g_stop, which its loops    *)
(* test) or killed; a reader that ended may be started again.  The writer  *)
(* creates the segment with O_EXCL and nobody unlinks it, so one that a    *)
(* former run left makes the writer give up.  rb_init is two steps: the    *)
(* readers can look at the segment between its stores.  System calls other *)
(* than shm_open succeed.                                                  *)
(***************************************************************************)
EXTENDS ExampleRing

CONSTANTS
    SeqMod,             \* number of values of the bench message's uint32_t
    MaxReaders          \* bound: readers started

ASSUME IpcAssumption ==
    /\ limit \in Nat /\ limit >= 2
    /\ Total \in Nat
    /\ SeqMod \in Nat /\ SeqMod >= 2
    /\ MaxReaders \in Nat

VARIABLES
    shm,                \* the segment: "none", "empty" (size 0), "sized"
    readers,            \* readers started
    last_seq,
    first_seen,         \* first_seq_seen, or have_window as 0 or 1
    gaps, gap_items,
    origin              \* history: number of the first message of this reader

counts == <<received, last_seq, first_seen, gaps, gap_items, origin>>
ipc == <<shm, readers, last_seq, first_seen, gaps, gap_items, origin>>

IpcPrograms == {"ipc", "burst", "ipc_bench"}

(* No segment, or the one of a run that ended with rb_deinit. *)
IpcInit ==
    /\ program \in IpcPrograms
    /\ drop_mode \in IF program = "burst" THEN BOOLEAN ELSE {FALSE}
    /\ shm \in {"none", "sized"}
    /\ capacity_set = (shm = "sized") /\ live = FALSE
    /\ q = <<>> /\ pending = FALSE /\ active = FALSE
    /\ wpc = "start" /\ seq = 0 /\ dropped = 0
    /\ rpc = "off" /\ readers = 0
    /\ received = 0 /\ last_seq = 0 /\ first_seen = 0
    /\ gaps = 0 /\ gap_items = 0 /\ origin = 0

-----------------------------------------------------------------------------
(* The writers.                                                            *)

WriterOnly == UNCHANGED <<program, drop_mode, rpc, counts, readers>>

(* shm_open with O_CREAT and O_EXCL, then ftruncate and mmap. *)
CreateSegment ==
    /\ \/ /\ wpc = "start" /\ shm # "none"
          /\ wpc' = "failed" /\ UNCHANGED shm
       \/ /\ wpc = "start" /\ shm = "none"
          /\ wpc' = "truncate" /\ shm' = "empty"
       \/ /\ wpc = "truncate"
          /\ wpc' = "init" /\ shm' = "sized"
    /\ UNCHANGED <<ring, seq, dropped>> /\ WriterOnly

(* rb_init: capacity is stored, and later scratch_size. *)
rb_init ==
    /\ \/ /\ wpc = "init"
          /\ capacity_set' = TRUE /\ UNCHANGED live
          /\ wpc' = "init2"
       \/ /\ wpc = "init2"
          /\ live' = TRUE /\ UNCHANGED capacity_set
          /\ wpc' = "loop"
    /\ q' = <<>> /\ pending' = FALSE /\ active' = FALSE
    /\ UNCHANGED <<shm, seq, dropped>> /\ WriterOnly

(* rb_acquire gives a slot, ... *)
AcquireSlot ==
    /\ wpc = "loop" /\ seq < Total
    /\ rb_acquire
    /\ wpc' = "publish"
    /\ UNCHANGED <<shm, seq, dropped>> /\ WriterOnly

(* ... or an error other than RB_ERR_FULL. *)
AcquireFails ==
    /\ wpc = "loop" /\ seq < Total
    /\ acquire_refused
    /\ wpc' = "end"
    /\ UNCHANGED <<shm, ring, seq, dropped>> /\ WriterOnly

(* The number a message carries: text of seq, or its low 32 bits. *)
Number(n) == IF program = "ipc_bench" THEN n % SeqMod ELSE n

(* rb_publish and seq++, whatever rb_publish answered. *)
PublishSlot ==
    /\ wpc = "publish"
    /\ rb_publish(Number(seq))
    /\ seq' = seq + 1
    /\ wpc' = "loop"
    /\ UNCHANGED <<shm, dropped>> /\ WriterOnly

(* The loop's condition fails: the time of a timed writer is up, or g_stop *)
(* is set.                                                                 *)
LoopEnds ==
    /\ wpc = "loop"
    /\ wpc' = "end"
    /\ UNCHANGED <<shm, ring, seq, dropped>> /\ WriterOnly

(* ipc_burst_writer on a full ring: with -m drop it skips the message; the *)
(* wait ends in the same place when g_stop is set.                         *)
BurstDrop ==
    /\ wpc = "loop" /\ seq < Total
    /\ acquire_full /\ drop_mode
    /\ dropped' = dropped + 1 /\ seq' = seq + 1
    /\ UNCHANGED <<shm, ring, wpc>> /\ WriterOnly

BurstWaitStopped ==
    /\ wpc = "loop" /\ seq < Total
    /\ acquire_full /\ ~ drop_mode
    /\ dropped' = dropped + 1 /\ seq' = seq + 1
    /\ wpc' = "end"
    /\ UNCHANGED <<shm, ring>> /\ WriterOnly

(* Mutant: the writer leaves the ring as it is. *)
EndNoDeinit ==
    /\ wpc = "end"
    /\ wpc' = "done"
    /\ UNCHANGED <<shm, ring, seq, dropped>> /\ WriterOnly

(* rb_deinit and munmap; messages still in the ring are out of reach. *)
WriterEnd ==
    /\ wpc = "end"
    /\ rb_deinit
    /\ wpc' = "done"
    /\ UNCHANGED <<shm, seq, dropped>> /\ WriterOnly

(* On a full ring the timed writers sleep or yield and try again. *)
ipc_writer ==
    /\ program = "ipc"
    /\ \/ CreateSegment \/ rb_init
       \/ LoopEnds \/ AcquireSlot \/ AcquireFails \/ PublishSlot
       \/ WriterEnd

ipc_burst_writer ==
    /\ program = "burst"
    /\ \/ CreateSegment \/ rb_init
       \/ (seq = Total /\ LoopEnds) \/ AcquireSlot \/ AcquireFails \/ BurstDrop \/ PublishSlot
       \/ WriterEnd

ipc_bench_writer ==
    /\ program = "ipc_bench"
    /\ \/ CreateSegment \/ rb_init
       \/ LoopEnds \/ AcquireSlot \/ AcquireFails \/ PublishSlot
       \/ WriterEnd

-----------------------------------------------------------------------------
(* The readers.                                                            *)

ReaderOnly == UNCHANGED <<program, drop_mode, shm, sender, readers>>

Gone == {"off", "done", "killed", "sigbus"}

StartReader ==
    /\ program \in IpcPrograms
    /\ rpc \in Gone /\ readers < MaxReaders
    /\ rpc' = "start" /\ readers' = readers + 1
    /\ received' = 0 /\ last_seq' = 0 /\ first_seen' = 0
    /\ gaps' = 0 /\ gap_items' = 0 /\ origin' = 0
    /\ UNCHANGED <<program, drop_mode, shm, ring, sender>>

(* ipc_reader gives up when there is no segment, and maps any other. *)
ReaderOpens ==
    /\ rpc = "start"
    /\ rpc' = IF shm = "none" THEN "done" ELSE "loop"
    /\ UNCHANGED <<ring, counts>> /\ ReaderOnly

(* Mutant: the size of the segment is not looked at. *)
AttachUnsized(next) ==
    /\ rpc = "start" /\ shm # "none"
    /\ rpc' = next
    /\ UNCHANGED <<ring, counts>> /\ ReaderOnly

(* ipc_slow_reader and ipc_bench_reader try again until fstat gives the    *)
(* segment a size.                                                         *)
Attach(next) ==
    /\ rpc = "start" /\ shm = "sized"
    /\ rpc' = next
    /\ UNCHANGED <<ring, counts>> /\ ReaderOnly

(* ipc_bench_reader stops trying after a time. *)
AttachTimeout ==
    /\ rpc = "start" /\ shm # "sized"
    /\ rpc' = "done"
    /\ UNCHANGED <<ring, counts>> /\ ReaderOnly

(* ipc_slow_reader spins until rb_capacity has its value. *)
CapacitySeen ==
    /\ rpc = "wait" /\ shm = "sized" /\ capacity_set
    /\ rpc' = "loop"
    /\ UNCHANGED <<ring, counts>> /\ ReaderOnly

(* The first access to a mapping of a segment of size 0. *)
Sigbus ==
    /\ rpc \in {"wait", "loop"} /\ shm = "empty"
    /\ rpc' = "sigbus"
    /\ UNCHANGED <<ring, counts>> /\ ReaderOnly

Take ==
    /\ rpc = "loop" /\ shm = "sized"
    /\ rb_consume
    /\ rpc' = "holding"
    /\ UNCHANGED counts /\ ReaderOnly

(* rb_consume gives an error other than RB_ERR_EMPTY. *)
TakeFails(next) ==
    /\ rpc = "loop" /\ shm = "sized"
    /\ consume_refused
    /\ rpc' = next
    /\ UNCHANGED <<ring, counts>> /\ ReaderOnly

(* rb_release and received++, after the message's number was checked. *)
Finish(n) ==
    /\ rb_release
    /\ received' = received + 1
    /\ last_seq' = n
    /\ origin' = IF received = 0 THEN n ELSE origin
    /\ rpc' = "loop"
    /\ ReaderOnly

(* ipc_reader: a gap is any number but the next, once last_seq is not 0. *)
IpcCheck ==
    /\ rpc = "holding"
    /\ LET n == Head(q)
       IN  /\ gaps' = IF last_seq # 0 /\ n # last_seq + 1 THEN gaps + 1 ELSE gaps
           /\ Finish(n)
    /\ UNCHANGED <<first_seen, gap_items>>

(* Mutant: the message that arrived is counted as missing too. *)
SlowCheckInclusive ==
    /\ rpc = "holding"
    /\ LET n == Head(q)
           gap == IF first_seen # 0 /\ n > last_seq + 1 THEN n - last_seq ELSE 0
       IN  /\ first_seen' = IF first_seen = 0 THEN n ELSE first_seen
           /\ gaps' = IF gap > 0 THEN gaps + 1 ELSE gaps
           /\ gap_items' = gap_items + gap
           /\ Finish(n)

(* ipc_slow_reader: no check while first_seq_seen is 0, which it still is  *)
(* after message 0.                                                        *)
SlowCheck ==
    /\ rpc = "holding"
    /\ LET n == Head(q)
           gap == IF first_seen # 0 /\ n > last_seq + 1 THEN n - last_seq - 1 ELSE 0
       IN  /\ first_seen' = IF first_seen = 0 THEN n ELSE first_seen
           /\ gaps' = IF gap > 0 THEN gaps + 1 ELSE gaps
           /\ gap_items' = gap_items + gap
           /\ Finish(n)

(* Mutant: the difference is not reduced to 32 bits. *)
BenchCheckWide ==
    /\ rpc = "holding"
    /\ LET n == Head(q)
       IN  /\ gaps' = IF first_seen = 1 /\ n - last_seq # 1 THEN gaps + 1 ELSE gaps
           /\ Finish(n)
    /\ first_seen' = 1
    /\ UNCHANGED gap_items

(* ipc_bench_reader: the difference is taken as a uint32_t. *)
BenchCheck ==
    /\ rpc = "holding"
    /\ LET n == Head(q)
       IN  /\ gaps' = IF first_seen = 1 /\ (n - last_seq) % SeqMod # 1
                      THEN gaps + 1 ELSE gaps
           /\ Finish(n)
    /\ first_seen' = 1
    /\ UNCHANGED gap_items

(* ipc_bench_reader gives up on a ring that has been empty for long. *)
Drained ==
    /\ rpc = "loop" /\ shm = "sized"
    /\ consume_empty /\ first_seen = 1
    /\ rpc' = "done"
    /\ UNCHANGED <<ring, counts>> /\ ReaderOnly

(* Mutant: the ring stays initialised when its reader ends. *)
SlowEndNoDeinit ==
    /\ rpc = "end"
    /\ rpc' = "done"
    /\ UNCHANGED <<ring, counts>> /\ ReaderOnly

(* ipc_slow_reader calls rb_deinit on the writer's ring. *)
SlowEnd ==
    /\ rpc = "end"
    /\ rb_deinit
    /\ rpc' = "done"
    /\ UNCHANGED counts /\ ReaderOnly

(* g_stop, at the places that test it; ipc_slow_reader's idle timeout and  *)
(* its count of messages end the loop in the same way.                     *)
ReaderStopped ==
    /\ \/ program = "burst" /\ rpc \in {"start", "wait"} /\ rpc' = "done"
       \/ program = "burst" /\ rpc = "loop" /\ rpc' = "end"
       \/ program # "burst" /\ rpc = "loop" /\ rpc' = "done"
    /\ UNCHANGED <<ring, counts>> /\ ReaderOnly

ipc_reader ==
    /\ program = "ipc"
    /\ ReaderOpens \/ Sigbus \/ Take \/ TakeFails("done") \/ IpcCheck

ipc_slow_reader ==
    /\ program = "burst"
    /\ \/ Attach("wait") \/ Sigbus \/ CapacitySeen
       \/ Take \/ TakeFails("end") \/ SlowCheck
       \/ SlowEnd

(* A ring that is not initialised is tried again for a time, too. *)
ipc_bench_reader ==
    /\ program = "ipc_bench"
    /\ \/ Attach("loop") \/ AttachTimeout \/ Sigbus
       \/ Take \/ TakeFails("done") \/ BenchCheck \/ Drained

-----------------------------------------------------------------------------
(* Signals.                                                                *)

Interrupt ==
    /\ program \in IpcPrograms
    /\ \/ LoopEnds
       \/ program = "burst" /\ BurstWaitStopped
       \/ ReaderStopped

(* A process is killed: shared memory stays as it is. *)
Kill ==
    /\ program \in IpcPrograms
    /\ \/ /\ wpc \notin {"done", "failed", "killed"}
          /\ wpc' = "killed"
          /\ UNCHANGED <<shm, ring, seq, dropped>> /\ WriterOnly
       \/ /\ rpc \notin Gone
          /\ rpc' = "killed"
          /\ UNCHANGED <<ring, counts>> /\ ReaderOnly

Writer == ipc_writer \/ ipc_burst_writer \/ ipc_bench_writer
Reader == ipc_reader \/ ipc_slow_reader \/ ipc_bench_reader
IpcNext == Writer \/ Reader \/ StartReader \/ Interrupt \/ Kill

-----------------------------------------------------------------------------
(* Properties.                                                             *)

Attached == {"wait", "loop", "holding"}

(* The readers that ask fstat for the size never touch a segment before    *)
(* the writer's ftruncate, however the start-ups interleave.               *)
AttachSafe == rpc = "sigbus" => program = "ipc"

(* A writer that waits on a full ring leaves no gap: whatever is           *)
(* interrupted, killed, started again or ended with rb_deinit, and when    *)
(* the bench number wraps, a reader sees consecutive numbers only.         *)
WaitNoGaps == ~ drop_mode => gaps = 0

(* ipc_slow_reader's count of missing messages is exact, although it does  *)
(* not check the message after number 0: what it received and what it      *)
(* counts as missing add up to the numbers from its first message to its   *)
(* last, and the writer dropped every message counted as missing.          *)
GapsExact ==
    program = "burst" /\ received > 0 =>
        /\ received + gap_items = last_seq - origin + 1
        /\ gap_items <= dropped

(* Once ipc_slow_reader has received a message, ipc_burst_writer ends      *)
(* unless that reader is killed: it is drained to its last message, or the *)
(* reader's rb_deinit makes its rb_acquire fail.                           *)
WriterEnds ==
    (program = "burst" /\ received > 0)
        ~> (wpc \in {"done", "killed"} \/ rpc = "killed")

(* A reader attached to the ring of a writer that ended, ends. *)
ReaderEnds ==
    (wpc = "done" /\ rpc \in Attached) ~> (rpc \notin Attached)

=============================================================================
