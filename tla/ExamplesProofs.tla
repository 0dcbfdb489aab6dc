--------------------------- MODULE ExamplesProofs ---------------------------
(***************************************************************************)
(* Proofs, for every limit of at least 2, every number of messages and     *)
(* readers and every width of the bench number, of what the example        *)
(* programs rely on.                                                       *)
(***************************************************************************)
EXTENDS Examples, TLAPS

(* A step is one of the program that runs, which stays the same. *)
LEMMA OneProgram ==
  ASSUME Next
  PROVE  /\ program' = program /\ drop_mode' = drop_mode
         /\ \/ program \in IpcPrograms /\ IpcNext /\ UNCHANGED inproc
            \/ program \in InprocPrograms /\ InprocNext /\ UNCHANGED ipc
<1>1. CASE IpcNext /\ UNCHANGED inproc
  <2>1. program \in IpcPrograms
    BY <1>1 DEF IpcNext, Writer, Reader, ipc_writer, ipc_burst_writer, ipc_bench_writer,
      ipc_reader, ipc_slow_reader, ipc_bench_reader, StartReader, Interrupt, Kill,
      IpcPrograms
  <2>2. UNCHANGED <<program, drop_mode>>
    <3>1. CASE Writer
      BY <3>1 DEF Writer, ipc_writer, ipc_burst_writer, ipc_bench_writer, CreateSegment,
        rb_init, LoopEnds, AcquireSlot, AcquireFails, PublishSlot, BurstDrop, WriterEnd,
        WriterOnly
    <3>2. CASE Reader
      BY <3>2 DEF Reader, ipc_reader, ipc_slow_reader, ipc_bench_reader, ReaderOpens,
        Attach, AttachTimeout, CapacitySeen, Sigbus, Take, TakeFails, Finish, IpcCheck,
        SlowCheck, BenchCheck, Drained, SlowEnd, ReaderOnly
    <3>3. CASE StartReader \/ Interrupt \/ Kill
      BY <3>3 DEF StartReader, Interrupt, Kill, LoopEnds, BurstWaitStopped, ReaderStopped,
        WriterOnly, ReaderOnly
    <3> QED BY <1>1, <3>1, <3>2, <3>3, Zenon DEF IpcNext
  <2> QED BY <1>1, <2>1, <2>2, Zenon
<1>2. CASE InprocNext /\ UNCHANGED ipc
  <2>1. program \in InprocPrograms
    <3>1. CASE Producer
      BY <3>1 DEF Producer, InprocProducer, BenchProducer, InprocPrograms, BenchPrograms
    <3>2. CASE Consumer
      BY <3>2 DEF Consumer, consumer_poll_fn, consumer_futex_fn, consumer_uv_fn,
        InprocPrograms, BenchPrograms
    <3>3. CASE Main
      BY <3>3 DEF Main, InprocMain, BenchMain, InprocPrograms, BenchPrograms
    <3> QED BY <1>2, <3>1, <3>2, <3>3, Zenon DEF InprocNext
  <2>2. UNCHANGED <<program, drop_mode>>
    BY <1>2, Zenon DEF InprocNext, Producer, Consumer, Main, InprocProducer, BenchProducer,
      consumer_poll_fn, consumer_futex_fn, consumer_uv_fn, InprocMain, BenchMain,
      uv_on_ready, uv_on_tick, consume_all, Step, ConsumerOnly, Fixed
  <2> QED BY <1>2, <2>1, <2>2
<1> QED BY <1>1, <1>2 DEF Next

LEMMA ShortSequences ==
  /\ Len(<<>>) = 0
  /\ \A m : Len(Append(<<>>, m)) = 1
OBVIOUS

-----------------------------------------------------------------------------
(* backpressure_bench.                                                     *)

(* From its start to its loop, and whenever it is back in it, the consumer *)
(* on libuv has an event for what is in the ring.                          *)
UvInv ==
    program = "uv" /\ rpc \in {"off", "top", "loop"} /\ q # <<>> =>
        readable \/ wpc = "notify"

(* The polling consumer ends on an empty ring after stop: a producer that  *)
(* has passed its test of stop publishes one message, and no other.        *)
PollInv ==
    program = "poll" =>
        /\ rpc \in {"last", "last_item", "ended"} => stop
        /\ rpc = "ended" => q = <<>> \/ (Len(q) = 1 /\ wpc # "publish")

LEMMA UvNext == UvInv /\ [Next]_vars => UvInv'
<1> SUFFICES ASSUME UvInv, [Next]_vars PROVE UvInv'
  OBVIOUS
<1>1. CASE UNCHANGED vars
  BY <1>1 DEF UvInv, vars, shared, ring, sender, inproc
<1>2. CASE Next
  <2> SUFFICES ASSUME program = "uv" PROVE UvInv'
    BY <1>2, OneProgram DEF UvInv
  <2>1. InprocNext
    BY <1>2, OneProgram DEF IpcPrograms
  <2>2. CASE BenchProducer
    BY <2>2 DEF UvInv, BenchProducer, ProducerTop, ProducerOnly, rb_acquire, rb_abort,
      rb_publish, ring
  <2>3. CASE consumer_uv_fn
    <3>1. \/ rpc' \notin {"off", "top", "loop"}
          \/ q = <<>> /\ q' = q
          \/ rpc = "top" /\ q' = q /\ readable' = readable /\ wpc' = wpc
      BY <2>3 DEF consumer_uv_fn, uv_on_ready, uv_on_tick, consume_all, Step, ConsumerOnly,
        ring, sender
    <3> QED BY <3>1 DEF UvInv
  <2>4. CASE BenchMain
    BY <2>4 DEF UvInv, BenchMain, rb_thread_spawn, rb_thread_join, rb_deinit, ring
  <2> QED
    BY <2>1, <2>2, <2>3, <2>4 DEF InprocNext, Producer, Consumer, Main, InprocProducer,
      InprocMain, consumer_poll_fn, consumer_futex_fn
<1> QED BY <1>1, <1>2

LEMMA PollNext == PollInv /\ [Next]_vars => PollInv'
<1> SUFFICES ASSUME PollInv, [Next]_vars PROVE PollInv'
  OBVIOUS
<1>1. CASE UNCHANGED vars
  BY <1>1 DEF PollInv, vars, shared, ring, sender, inproc
<1>2. CASE Next
  <2> SUFFICES ASSUME program = "poll" PROVE PollInv'
    BY <1>2, OneProgram DEF PollInv
  <2>1. InprocNext
    BY <1>2, OneProgram DEF IpcPrograms
  <2>2. CASE BenchProducer
    <3>1. /\ UNCHANGED <<program, rpc, stop>>
          /\ \/ wpc' # "publish" /\ q' = q
             \/ wpc' = "publish" /\ ~ stop
             \/ wpc = "publish" /\ wpc' # "publish" /\ q' = Append(q, seq)
      BY <2>2 DEF BenchProducer, ProducerTop, ProducerOnly, rb_acquire, rb_abort,
        rb_publish, ring, Fixed
    <3> QED BY <3>1, ShortSequences, Zenon DEF PollInv
  <2>3. CASE consumer_poll_fn
    <3>1. \/ rpc' \notin {"last", "last_item", "ended"}
          \/ stop /\ stop' = stop /\ rpc' # "ended"
          \/ stop /\ stop' = stop /\ q = <<>> /\ q' = q
      BY <2>3 DEF PollInv, consumer_poll_fn, consume_all, consume_empty, Step,
        ConsumerOnly, ring, sender
    <3> QED BY <3>1 DEF PollInv
  <2>4. CASE BenchMain
    BY <2>4 DEF PollInv, BenchMain, rb_thread_spawn, rb_thread_join, rb_deinit, ring
  <2> QED
    BY <2>1, <2>2, <2>3, <2>4 DEF InprocNext, Producer, Consumer, Main, InprocProducer,
      InprocMain, consumer_uv_fn, consumer_futex_fn
<1> QED BY <1>1, <1>2

(* backpressure_bench's consumer_uv_fn: in the event loop, a message in    *)
(* the ring always has an event that reports it, or will have once         *)
(* rb_publish has written to the eventfd.                                  *)
THEOREM UvIsReported == Spec => []UvReported
<1>1. Init => UvInv
  BY Zenon DEF Init, IpcInit, InprocInit, RingIs, UvInv
<1>2. UvInv => UvReported
  BY DEF UvInv, UvReported
<1> QED BY <1>1, <1>2, UvNext, PTL DEF Spec

(* backpressure_bench's consumer_poll_fn: when both threads have ended, at *)
(* most one message is left in the ring.                                   *)
THEOREM PollLeavesAtMostOne == Spec => []PollLeavesOne
<1>1. Init => PollInv
  BY DEF Init, IpcInit, IpcPrograms, InprocInit, PollInv
<1>2. PollInv => PollLeavesOne
  <2> SUFFICES ASSUME PollInv, program = "poll", rpc = "ended" PROVE Len(q) <= 1
    BY DEF PollLeavesOne
  <2>1. Len(q) = 0 \/ Len(q) = 1
    BY ShortSequences, Zenon DEF PollInv
  <2>2. \A n : n = 0 \/ n = 1 => n <= 1
    OBVIOUS
  <2> QED BY <2>1, <2>2, Zenon
<1> QED BY <1>1, <1>2, PollNext, PTL DEF Spec

-----------------------------------------------------------------------------
(* The programs that share a segment.  Their steps fall into the kinds     *)
(* below, each with what it does to the ring and to the counts.            *)

SettingUp == {"start", "truncate", "init", "init2"}
Sending == {"loop", "publish"}

Counts == UNCHANGED <<received, last_seq, first_seen, gaps, gap_items, origin>>
Sent == UNCHANGED <<wpc, seq, dropped>>
RingStays == UNCHANGED <<live, q, pending, active>>

(* The writer before rb_init's last store, and that store. *)
SetsUp ==
    /\ wpc \in SettingUp /\ wpc' \in SettingUp \cup {"failed"}
    /\ live' = live /\ q' \in {q, <<>>}
    /\ UNCHANGED <<seq, dropped, rpc>> /\ Counts

GoesLive ==
    /\ wpc = "init2" /\ wpc' = "loop"
    /\ live' = TRUE /\ q' = <<>>
    /\ UNCHANGED <<seq, dropped, rpc>> /\ Counts

Acquires ==
    /\ wpc = "loop" /\ wpc' = "publish"
    /\ pending' = TRUE
    /\ UNCHANGED <<live, q, active, seq, dropped, rpc>> /\ Counts

Publishes ==
    /\ wpc = "publish" /\ wpc' = "loop"
    /\ q' = IF live /\ pending THEN Append(q, Number(seq)) ELSE q
    /\ seq' = seq + 1
    /\ UNCHANGED <<live, active, dropped, rpc>> /\ Counts

(* Only ipc_burst_writer gives a message up; it goes on with -m drop only. *)
GivesUp ==
    /\ wpc = "loop" /\ program = "burst"
    /\ wpc' = IF drop_mode THEN "loop" ELSE "end"
    /\ Len(q) >= limit
    /\ seq' = seq + 1 /\ dropped' = dropped + 1
    /\ RingStays /\ UNCHANGED rpc /\ Counts

StopsSending ==
    /\ wpc \notin {"done", "failed"} /\ wpc' \in {"end", "killed"}
    /\ wpc' = "end" => wpc = "loop"
    /\ RingStays /\ UNCHANGED <<seq, dropped, rpc>> /\ Counts

(* Either side's rb_deinit. *)
Deinits ==
    /\ live' = FALSE /\ q' = q
    /\ \/ wpc = "end" /\ wpc' = "done" /\ rpc' = rpc
       \/ wpc' = wpc /\ rpc = "end" /\ rpc' = "done"
    /\ UNCHANGED <<seq, dropped>> /\ Counts

(* The reader, outside the ring. *)
StartsReading ==
    /\ rpc' = "start"
    /\ received' = 0 /\ last_seq' = 0 /\ first_seen' = 0
    /\ gaps' = 0 /\ gap_items' = 0 /\ origin' = 0
    /\ RingStays /\ Sent

MovesOn ==
    /\ rpc' \notin {"start", "holding"}
    /\ rpc' \in {"wait", "loop"} => rpc \in {"start", "wait"}
    /\ RingStays /\ Sent /\ Counts

Takes ==
    /\ rpc = "loop" /\ rpc' = "holding"
    /\ live /\ q # <<>>
    /\ active' = TRUE
    /\ UNCHANGED <<live, q, pending>> /\ Sent /\ Counts

Checks ==
    /\ rpc = "holding" /\ rpc' = "loop"
    /\ q' = IF live /\ active THEN Tail(q) ELSE q
    /\ received' = received + 1 /\ last_seq' = Head(q)
    /\ origin' = IF received = 0 THEN Head(q) ELSE origin
    /\ \/ program = "ipc" /\ IpcCheck
       \/ program = "burst" /\ SlowCheck
       \/ program = "ipc_bench" /\ BenchCheck
    /\ UNCHANGED <<live, pending>> /\ Sent

LEMMA WriterKinds ==
  ASSUME Writer \/ LoopEnds \/ (program = "burst" /\ BurstWaitStopped)
  PROVE  SetsUp \/ GoesLive \/ Acquires \/ Publishes \/ GivesUp \/ StopsSending \/ Deinits
<1> USE DEF WriterOnly, counts, Counts, RingStays, ring
<1>1. CASE CreateSegment
  BY <1>1 DEF CreateSegment, SetsUp, SettingUp
<1>2. CASE rb_init
  BY <1>2 DEF rb_init, SetsUp, GoesLive, SettingUp
<1>3. CASE LoopEnds \/ AcquireFails
  BY <1>3 DEF LoopEnds, AcquireFails, StopsSending
<1>4. CASE AcquireSlot
  BY <1>4 DEF AcquireSlot, rb_acquire, Acquires
<1>5. CASE PublishSlot
  BY <1>5 DEF PublishSlot, rb_publish, Publishes
<1>6. CASE program = "burst" /\ (BurstDrop \/ BurstWaitStopped)
  BY <1>6 DEF BurstDrop, BurstWaitStopped, acquire_full, GivesUp
<1>7. CASE WriterEnd
  BY <1>7 DEF WriterEnd, rb_deinit, Deinits
<1> QED
  BY <1>1, <1>2, <1>3, <1>4, <1>5, <1>6, <1>7
  DEF Writer, ipc_writer, ipc_burst_writer, ipc_bench_writer

LEMMA ReaderKinds ==
  ASSUME Reader \/ StartReader \/ ReaderStopped
  PROVE  Deinits \/ StartsReading \/ MovesOn \/ Takes \/ Checks
<1> USE DEF ReaderOnly, counts, Counts, RingStays, ring, sender, Sent
<1>1. CASE ReaderOpens
  BY <1>1 DEF ReaderOpens, MovesOn
<1>2. CASE Attach("wait") \/ Attach("loop") \/ AttachTimeout
  BY <1>2 DEF Attach, AttachTimeout, MovesOn
<1>3. CASE CapacitySeen \/ Sigbus \/ Drained \/ ReaderStopped
  BY <1>3 DEF CapacitySeen, Sigbus, Drained, ReaderStopped, MovesOn
<1>4. CASE TakeFails("done") \/ TakeFails("end")
  BY <1>4 DEF TakeFails, MovesOn
<1>5. CASE Take
  BY <1>5 DEF Take, rb_consume, consume_refused, Takes
<1>6. CASE \/ program = "ipc" /\ IpcCheck
           \/ program = "burst" /\ SlowCheck
           \/ program = "ipc_bench" /\ BenchCheck
  <2>1. rpc = "holding" /\ Finish(Head(q))
    BY <1>6 DEF IpcCheck, SlowCheck, BenchCheck
  <2> QED BY <1>6, <2>1 DEF Finish, rb_release, Checks
<1>7. CASE SlowEnd
  BY <1>7 DEF SlowEnd, rb_deinit, Deinits
<1>8. CASE StartReader
  BY <1>8 DEF StartReader, StartsReading
<1> QED
  BY <1>1, <1>2, <1>3, <1>4, <1>5, <1>6, <1>7, <1>8
  DEF Reader, ipc_reader, ipc_slow_reader, ipc_bench_reader

LEMMA IpcKinds ==
  ASSUME IpcNext
  PROVE  \/ SetsUp \/ GoesLive \/ Acquires \/ Publishes \/ GivesUp \/ StopsSending
         \/ Deinits \/ StartsReading \/ MovesOn \/ Takes \/ Checks
<1>1. CASE Kill
  BY <1>1 DEF Kill, Gone, WriterOnly, ReaderOnly, counts, ring, sender, Counts, RingStays,
    Sent, StopsSending, MovesOn
<1> QED BY <1>1, WriterKinds, ReaderKinds DEF IpcNext, Interrupt

-----------------------------------------------------------------------------
(* What holds of a shared ring, whoever is killed or starts again.         *)

IpcTypeOK ==
    /\ q \in Seq(Nat) /\ seq \in Nat /\ dropped \in Nat
    /\ received \in Nat /\ last_seq \in Nat /\ first_seen \in Nat
    /\ gaps \in Nat /\ gap_items \in Nat /\ origin \in Nat

(* A ring is live between the writer's rb_init and the first rb_deinit, so *)
(* never twice; a slot is published after it was acquired, and what a      *)
(* reader holds stays in the ring, also when the ring is ended under it.   *)
HandoverInv ==
    /\ live => wpc \in {"loop", "publish", "end", "killed"}
    /\ live /\ wpc = "publish" => pending
    /\ wpc \in SettingUp => seq = 0 /\ dropped = 0 /\ received = 0 /\ rpc # "holding"
    /\ rpc \in {"start", "wait"} => received = 0
    /\ rpc = "holding" => q # <<>> /\ (live => active)

SharedInv == program \in IpcPrograms => IpcTypeOK /\ HandoverInv

LEMMA NothingSent == <<>> \in Seq(Nat)
OBVIOUS

LEMMA SharedInit == Init => SharedInv
<1> SUFFICES ASSUME Init, program \in IpcPrograms PROVE IpcTypeOK /\ HandoverInv
  BY DEF SharedInv
<1>1. IpcInit
  BY Zenon DEF Init, InprocInit, IpcPrograms, InprocPrograms, BenchPrograms
<1>2. IpcTypeOK
  BY <1>1, NothingSent DEF IpcInit, IpcTypeOK
<1>3. HandoverInv
  BY <1>1 DEF IpcInit, HandoverInv
<1> QED BY <1>2, <1>3

(* The checks count up. *)
LEMMA ChecksTyped ==
  ASSUME Checks, IpcTypeOK, HandoverInv
  PROVE  IpcTypeOK'
<1> USE DEF IpcTypeOK
<1>1. Head(q) \in Nat /\ Tail(q) \in Seq(Nat)
  BY DEF Checks, HandoverInv
<1>2. first_seen' \in Nat /\ gaps' \in Nat /\ gap_items' \in Nat
  <2>1. CASE program = "ipc" /\ IpcCheck
    BY <2>1 DEF IpcCheck
  <2>2. CASE program = "burst" /\ SlowCheck
    <3> DEFINE gap == IF first_seen # 0 /\ Head(q) > last_seq + 1
                      THEN Head(q) - last_seq - 1 ELSE 0
    <3>1. gap \in Nat
      BY <1>1
    <3>2. /\ first_seen' = IF first_seen = 0 THEN Head(q) ELSE first_seen
          /\ gaps' = IF gap > 0 THEN gaps + 1 ELSE gaps
          /\ gap_items' = gap_items + gap
      BY <2>2, Zenon DEF SlowCheck
    <3> HIDE DEF gap
    <3> QED BY <1>1, <3>1, <3>2
  <2>3. CASE program = "ipc_bench" /\ BenchCheck
    BY <2>3 DEF BenchCheck
  <2> QED BY <2>1, <2>2, <2>3 DEF Checks
<1>3. q' \in Seq(Nat)
  BY <1>1 DEF Checks
<1> QED BY <1>1, <1>2, <1>3 DEF Checks, Sent

LEMMA SharedNext == SharedInv /\ [Next]_vars => SharedInv'
<1> SUFFICES ASSUME SharedInv, [Next]_vars PROVE SharedInv'
  OBVIOUS
<1>1. CASE UNCHANGED vars
  BY <1>1 DEF vars, shared, ring, sender, ipc, SharedInv, IpcTypeOK, HandoverInv
<1>2. CASE Next
  <2> SUFFICES ASSUME program \in IpcPrograms, IpcNext PROVE IpcTypeOK' /\ HandoverInv'
    BY <1>2, OneProgram DEF SharedInv, IpcPrograms, InprocPrograms, BenchPrograms
  <2>1. IpcTypeOK /\ HandoverInv
    BY DEF SharedInv
  <2> USE DEF Counts, Sent, RingStays, SettingUp
  <2>2. CASE SetsUp \/ GoesLive
    <3>1. IpcTypeOK'
      BY <2>1, <2>2, NothingSent, Zenon DEF SetsUp, GoesLive, IpcTypeOK
    <3>2. HandoverInv'
      BY <2>1, <2>2 DEF SetsUp, GoesLive, HandoverInv
    <3> QED BY <3>1, <3>2
  <2>3. CASE Acquires \/ GivesUp \/ StopsSending
    <3>1. IpcTypeOK'
      <4>1. /\ UNCHANGED <<q, received, last_seq, first_seen, gaps, gap_items, origin>>
            /\ \/ UNCHANGED <<seq, dropped>>
               \/ seq' = seq + 1 /\ dropped' = dropped + 1
        BY <2>3, Zenon DEF Acquires, GivesUp, StopsSending
      <4>2. seq' \in Nat /\ dropped' \in Nat
        BY <2>1, <4>1 DEF IpcTypeOK
      <4> QED BY <2>1, <4>1, <4>2, Zenon DEF IpcTypeOK
    <3>2. ASSUME Acquires PROVE HandoverInv'
      BY <2>1, <3>2 DEF Acquires, HandoverInv
    <3>3. ASSUME GivesUp PROVE HandoverInv'
      BY <2>1, <3>3 DEF GivesUp, HandoverInv
    <3>4. ASSUME StopsSending PROVE HandoverInv'
      BY <2>1, <3>4 DEF StopsSending, HandoverInv
    <3> QED BY <2>3, <3>1, <3>2, <3>3, <3>4
  <2>4. CASE Publishes
    <3>1. Number(seq) \in Nat
      BY <2>1, IpcAssumption DEF Number, IpcTypeOK
    <3>2. q' \in Seq(Nat) /\ (q # <<>> => q' # <<>>)
      BY <2>1, <2>4, <3>1 DEF Publishes, IpcTypeOK
    <3> QED BY <2>1, <2>4, <3>2 DEF Publishes, IpcTypeOK, HandoverInv
  <2>5. CASE Deinits
    BY <2>1, <2>5 DEF Deinits, IpcTypeOK, HandoverInv
  <2>6. CASE StartsReading \/ MovesOn
    BY <2>1, <2>6 DEF StartsReading, MovesOn, IpcTypeOK, HandoverInv
  <2>7. CASE Takes
    BY <2>1, <2>7 DEF Takes, IpcTypeOK, HandoverInv
  <2>8. CASE Checks
    BY <2>1, <2>8, ChecksTyped DEF Checks, HandoverInv
  <2> QED BY IpcKinds, <2>2, <2>3, <2>4, <2>5, <2>6, <2>7, <2>8
<1> QED BY <1>1, <1>2

-----------------------------------------------------------------------------
(* AttachSafe.                                                             *)

(* ipc_slow_reader and ipc_bench_reader map a segment once it has a size,  *)
(* which it keeps.                                                         *)
AttachInv ==
    /\ program \in {"burst", "ipc_bench"} /\ rpc \in {"wait", "loop", "holding"} =>
        shm = "sized"
    /\ AttachSafe

LEMMA AttachNext == AttachInv /\ [Next]_vars => AttachInv'
<1> SUFFICES ASSUME AttachInv, [Next]_vars PROVE AttachInv'
  OBVIOUS
<1> USE DEF AttachSafe
<1>1. CASE UNCHANGED vars
  BY <1>1 DEF vars, shared, ipc, AttachInv
<1>2. CASE program \in IpcPrograms /\ IpcNext
  <2>1. CASE Writer
    <3>1. rpc' = rpc /\ program' = program /\ (shm = "sized" => shm' = "sized")
      BY <2>1, Zenon DEF Writer, ipc_writer, ipc_burst_writer, ipc_bench_writer, CreateSegment,
        rb_init, LoopEnds, AcquireSlot, AcquireFails, PublishSlot, BurstDrop, WriterEnd,
        WriterOnly
    <3> QED BY <3>1, Zenon DEF AttachInv
  <2>2. CASE Reader
    BY <2>2 DEF AttachInv, Reader, ipc_reader, ipc_slow_reader, ipc_bench_reader,
      ReaderOpens, Attach, AttachTimeout, CapacitySeen, Sigbus, Take, TakeFails, Finish,
      IpcCheck, SlowCheck, BenchCheck, Drained, SlowEnd, ReaderOnly
  <2>3. CASE StartReader \/ Interrupt \/ Kill
    BY <2>3 DEF AttachInv, StartReader, Interrupt, Kill, LoopEnds, BurstWaitStopped,
      ReaderStopped, WriterOnly, ReaderOnly
  <2> QED BY <1>2, <2>1, <2>2, <2>3 DEF IpcNext
<1>3. CASE program \in InprocPrograms /\ InprocNext /\ UNCHANGED <<ipc, program>>
  <2>1. rpc' # rpc => rpc' # "sigbus"
    BY <1>3, Zenon DEF InprocNext, Producer, Consumer, Main, InprocProducer, BenchProducer,
      ProducerTop, ProducerOnly, consumer_poll_fn, consumer_futex_fn, consumer_uv_fn,
      uv_on_ready, uv_on_tick, consume_all, Step, InprocMain, BenchMain, rb_thread_spawn
  <2>2. program' \notin {"burst", "ipc_bench"} /\ program' = program
    BY <1>3 DEF InprocPrograms, BenchPrograms
  <2>3. shm' = shm
    BY <1>3 DEF ipc
  <2> QED BY <2>1, <2>2, <2>3, Zenon DEF AttachInv
<1> QED BY <1>1, <1>2, <1>3, OneProgram

(* ipc_slow_reader and ipc_bench_reader ask fstat for the size before they *)
(* touch the mapping: only ipc_reader can meet a segment of size 0.        *)
THEOREM AttachIsSafe == Spec => []AttachSafe
<1>1. Init => AttachInv
  BY Zenon DEF Init, IpcInit, InprocInit, AttachInv, AttachSafe
<1>2. AttachInv => AttachSafe
  BY DEF AttachInv
<1> QED BY <1>1, <1>2, AttachNext, PTL DEF Spec

-----------------------------------------------------------------------------
(* WaitNoGaps.                                                             *)

(* The number of message n, and the number that comes after another. *)
NumberOf(p, n) == IF p = "ipc_bench" THEN n % SeqMod ELSE n
Follows(p, n, m) == IF p = "ipc_bench" THEN (n - m) % SeqMod = 1 ELSE n = m + 1

(* Of the messages sent, the place of the oldest one in the ring. *)
First == seq - dropped - Len(q)

(* Nothing is given up before the writer ends, a live ring holds the last  *)
(* messages sent, and a reader in its loop has seen the one before them.   *)
(* A reader that holds a message has the next one, whether or not the ring *)
(* is still live when it looks.                                            *)
WaitOrder ==
    /\ wpc \in Sending => dropped = 0
    /\ received = 0 => last_seq = 0 /\ first_seen = 0
    /\ live =>
        /\ First >= 0
        /\ \A i \in 1 .. Len(q) : q[i] = NumberOf(program, First + i - 1)
    /\ live /\ rpc = "loop" /\ received > 0 =>
        First > 0 /\ last_seq = NumberOf(program, First - 1)
    /\ rpc = "holding" /\ received > 0 => Follows(program, Head(q), last_seq)

WaitInv == ~ drop_mode => gaps = 0 /\ (program \in IpcPrograms => WaitOrder)

LEMMA BelowZero ==
  ASSUME NEW m \in Nat, m >= 2
  PROVE  (1 - m) % m = 1
<1> DEFINE a == (1 - m) \div m
           c == (1 - m) % m
<1>1. a \in Int /\ c \in 0 .. m - 1 /\ 1 - m = m * a + c
  OBVIOUS
<1> HIDE DEF a, c
<1>2. a = -1
  <2>1. a >= 0 => m * a >= 0
    BY <1>1
  <2>2. a <= -2 => m * a <= m * (-2)
    BY <1>1
  <2> QED BY <1>1, <2>1, <2>2
<1> QED BY <1>1, <1>2 DEF c

(* A 32-bit number and the next one differ by 1, also where they wrap. *)
LEMMA NextNumber ==
  ASSUME NEW k \in Nat, NEW m \in Nat, m >= 2
  PROVE  (((k + 1) % m) - (k % m)) % m = 1
<1> DEFINE c == k % m
           d == (k + 1) % m
           a == k \div m
           b == (k + 1) \div m
<1>1. a \in Nat /\ c \in 0 .. m - 1 /\ k = m * a + c
  OBVIOUS
<1>2. b \in Nat /\ d \in 0 .. m - 1 /\ k + 1 = m * b + d
  OBVIOUS
<1> HIDE DEF a, b, c, d
<1>3. m * (b - a) = 1 + c - d
  <2>1. m * (b - a) = m * b - m * a
    BY <1>1, <1>2
  <2> QED BY <1>1, <1>2, <2>1
<1>4. b - a \in {0, 1}
  <2>1. b - a >= 2 => m * (b - a) >= m * 2
    BY <1>1, <1>2
  <2>2. b - a <= -1 => m * (b - a) <= -m
    BY <1>1, <1>2
  <2> QED BY <1>1, <1>2, <1>3, <2>1, <2>2
<1>5. d - c = 1 \/ d - c = 1 - m
  BY <1>1, <1>2, <1>3, <1>4
<1>6. 1 % m = 1
  OBVIOUS
<1>7. (1 - m) % m = 1
  BY BelowZero
<1>8. (d - c) % m = 1
  BY <1>5, <1>6, <1>7
<1> QED BY <1>8, Zenon DEF c, d

LEMMA NumbersFollow ==
  ASSUME NEW p, NEW k \in Nat
  PROVE  /\ NumberOf(p, k) \in Nat
         /\ Follows(p, NumberOf(p, k + 1), NumberOf(p, k))
<1>1. SeqMod \in Nat /\ SeqMod >= 2
  BY IpcAssumption
<1>2. k % SeqMod \in Nat
  BY <1>1
<1>3. (((k + 1) % SeqMod) - (k % SeqMod)) % SeqMod = 1
  BY <1>1, NextNumber
<1>4. CASE p = "ipc_bench"
  BY <1>2, <1>3, <1>4, Zenon DEF NumberOf, Follows
<1>5. CASE p # "ipc_bench"
  BY <1>5 DEF NumberOf, Follows
<1> QED BY <1>4, <1>5

(* None of the three checks counts the next number as a gap. *)
LEMMA NextIsNoGap ==
  ASSUME Checks, IpcTypeOK, HandoverInv, WaitOrder, gaps = 0
  PROVE  gaps' = 0
<1>1. Head(q) \in Nat /\ received \in Nat /\ last_seq \in Nat
  BY DEF Checks, HandoverInv, IpcTypeOK
<1>2. received = 0 => last_seq = 0 /\ first_seen = 0
  BY DEF WaitOrder
<1>3. received # 0 => Follows(program, Head(q), last_seq)
  BY <1>1 DEF WaitOrder, Checks
<1>4. CASE program = "ipc" /\ IpcCheck
  BY <1>1, <1>2, <1>3, <1>4 DEF IpcCheck, Follows
<1>5. CASE program = "burst" /\ SlowCheck
  <2>1. ~ (first_seen # 0 /\ Head(q) > last_seq + 1)
    BY <1>1, <1>2, <1>3, <1>5 DEF Follows
  <2> QED BY <1>5, <2>1 DEF SlowCheck
<1>6. CASE program = "ipc_bench" /\ BenchCheck
  BY <1>1, <1>2, <1>3, <1>6 DEF BenchCheck, Follows
<1> QED BY <1>4, <1>5, <1>6 DEF Checks

LEMMA WaitNext == SharedInv /\ WaitInv /\ [Next]_vars => WaitInv'
<1> SUFFICES ASSUME SharedInv, WaitInv, [Next]_vars PROVE WaitInv'
  OBVIOUS
<1>1. CASE UNCHANGED vars
  BY <1>1 DEF vars, shared, ring, sender, ipc, WaitInv, WaitOrder, First
<1>2. CASE program \in InprocPrograms /\ UNCHANGED <<ipc, program, drop_mode>>
  BY <1>2 DEF WaitInv, ipc, InprocPrograms, BenchPrograms, IpcPrograms
<1>3. CASE program \in IpcPrograms /\ IpcNext /\ UNCHANGED <<program, drop_mode>>
  <2> SUFFICES ASSUME ~ drop_mode PROVE gaps' = 0 /\ WaitOrder'
    BY <1>3 DEF WaitInv
  <2>1. IpcTypeOK /\ HandoverInv /\ WaitOrder /\ gaps = 0
    BY <1>3 DEF SharedInv, WaitInv
  <2>2. First \in Int /\ Len(q) \in Nat
    BY <2>1 DEF IpcTypeOK, First
  <2> USE DEF Counts, Sent, RingStays, SettingUp, Sending
  <2>3. CASE SetsUp \/ GoesLive
    BY <1>3, <2>1, <2>3 DEF SetsUp, GoesLive, HandoverInv, WaitOrder, First
  <2>4. CASE Acquires \/ StopsSending \/ StartsReading \/ MovesOn
    BY <1>3, <2>1, <2>4 DEF Acquires, StopsSending, StartsReading, MovesOn, HandoverInv,
      WaitOrder, First
  <2>5. CASE Publishes
    <3>0. /\ UNCHANGED <<live, dropped, rpc, program>> /\ Counts
          /\ seq' = seq + 1 /\ dropped = 0 /\ seq \in Nat /\ q \in Seq(Nat)
      BY <1>3, <2>1, <2>5 DEF Publishes, WaitOrder, IpcTypeOK
    <3>1. CASE ~ live
      BY <1>3, <2>1, <2>5, <3>0, <3>1 DEF Publishes, WaitOrder
    <3>2. CASE live
      <4>1. q' = Append(q, NumberOf(program, seq))
        BY <2>1, <2>5, <3>2 DEF Publishes, HandoverInv, Number, NumberOf
      <4>2. First = seq - Len(q) /\ Len(q') = Len(q) + 1 /\ First' = First
        BY <3>0, <4>1 DEF First
      <4>3. \A i \in 1 .. Len(q') : q'[i] = NumberOf(program', First' + i - 1)
        <5> SUFFICES ASSUME NEW i \in 1 .. Len(q')
                     PROVE  q'[i] = NumberOf(program, First + i - 1)
          BY <3>0, <4>2
        <5>1. CASE i = Len(q) + 1
          <6>1. q'[i] = NumberOf(program, seq) /\ First + i - 1 = seq
            BY <2>2, <3>0, <4>1, <4>2, <5>1
          <6> QED BY <6>1
        <5>2. CASE i \in 1 .. Len(q)
          BY <2>1, <3>0, <3>2, <4>1, <5>2 DEF WaitOrder
        <5> QED BY <2>2, <4>2, <5>1, <5>2
      <4>4. rpc = "holding" => q # <<>> /\ Head(q') = Head(q)
        BY <2>1, <3>0, <4>1 DEF HandoverInv
      <4> QED BY <2>1, <3>0, <3>2, <4>2, <4>3, <4>4 DEF WaitOrder
    <3> QED BY <3>1, <3>2
  <2>6. CASE GivesUp
    <3>1. First' = First
      BY <2>1, <2>6 DEF GivesUp, First, IpcTypeOK
    <3> QED BY <1>3, <2>1, <2>6, <3>1 DEF GivesUp, WaitOrder
  <2>7. CASE Deinits
    BY <1>3, <2>1, <2>7 DEF Deinits, WaitOrder, First
  <2>8. CASE Takes
    <3>1. received > 0 => Follows(program, Head(q), last_seq)
      <4> SUFFICES ASSUME received > 0 PROVE Follows(program, Head(q), last_seq)
        OBVIOUS
      <4>1. First > 0 /\ last_seq = NumberOf(program, First - 1)
        BY <2>1, <2>8 DEF Takes, WaitOrder
      <4>2. Len(q) >= 1 /\ Head(q) = q[1]
        BY <2>1, <2>8 DEF Takes, IpcTypeOK
      <4>3. q[1] = NumberOf(program, First + 1 - 1)
        BY <2>1, <2>2, <2>8, <4>2 DEF Takes, WaitOrder
      <4>4. First - 1 \in Nat /\ First + 1 - 1 = (First - 1) + 1
        BY <2>2, <4>1
      <4> HIDE DEF First
      <4> QED BY <4>1, <4>2, <4>3, <4>4, NumbersFollow
    <3>2. First' = First
      BY <2>8 DEF Takes, First
    <3> QED BY <1>3, <2>1, <2>8, <3>1, <3>2 DEF Takes, WaitOrder
  <2>9. CASE Checks
    <3>0. UNCHANGED <<live, wpc, seq, dropped, program>> /\ rpc' = "loop" /\ received' # 0
      BY <1>3, <2>1, <2>9 DEF Checks, IpcTypeOK
    <3>1. gaps' = 0
      BY <2>1, <2>9, NextIsNoGap
    <3>2. CASE ~ live
      BY <2>1, <3>0, <3>1, <3>2 DEF WaitOrder
    <3>3. CASE live
      <4>1. q # <<>> /\ q \in Seq(Nat) /\ q' = Tail(q) /\ last_seq' = q[1]
        BY <2>1, <2>9, <3>3 DEF Checks, HandoverInv, IpcTypeOK
      <4>2. Len(q) >= 1 /\ Len(q') = Len(q) - 1
        BY <4>1
      <4>3. First' = First + 1
        BY <2>1, <2>2, <3>0, <4>2 DEF First, IpcTypeOK
      <4>4. q[1] = NumberOf(program, First + 1 - 1) /\ First >= 0
        BY <2>1, <2>2, <3>3, <4>2 DEF WaitOrder
      <4>5. \A i \in 1 .. Len(q') : q'[i] = NumberOf(program', First' + i - 1)
        <5> SUFFICES ASSUME NEW i \in 1 .. Len(q')
                     PROVE  q'[i] = NumberOf(program, First' + i - 1)
          BY <3>0
        <5>1. q'[i] = q[i + 1] /\ i + 1 \in 1 .. Len(q)
          BY <2>2, <4>1, <4>2
        <5>2. q[i + 1] = NumberOf(program, First + (i + 1) - 1)
          BY <2>1, <3>3, <5>1 DEF WaitOrder
        <5>3. First + (i + 1) - 1 = First' + i - 1
          BY <2>2, <4>2, <4>3
        <5> QED BY <5>1, <5>2, <5>3
      <4>6. First' > 0 /\ last_seq' = NumberOf(program', First' - 1)
        <5>1. First + 1 - 1 = First' - 1 /\ First' > 0
          BY <2>2, <4>3, <4>4
        <5> QED BY <3>0, <4>1, <4>4, <5>1
      <4>7. First' >= 0
        BY <2>2, <4>3, <4>4
      <4> QED BY <2>1, <3>0, <3>1, <4>5, <4>6, <4>7 DEF WaitOrder
    <3> QED BY <3>2, <3>3
  <2> QED BY <1>3, IpcKinds, <2>3, <2>4, <2>5, <2>6, <2>7, <2>8, <2>9
<1> QED BY <1>1, <1>2, <1>3, OneProgram

(* A waiting writer leaves no gap, whatever is interrupted, killed or      *)
(* started again, and where the 32-bit number of the bench wraps: none of  *)
(* the three readers ever counts one.                                      *)
THEOREM WaitLeavesNoGaps == Spec => []WaitNoGaps
<1>1. Init => WaitInv
  BY Zenon DEF Init, IpcInit, InprocInit, IpcIdle, WaitInv, WaitOrder, Sending, IpcPrograms,
    InprocPrograms, BenchPrograms
<1>2. WaitInv => WaitNoGaps
  BY DEF WaitInv, WaitNoGaps
<1> QED BY <1>1, <1>2, SharedInit, SharedNext, WaitNext, PTL DEF Spec

-----------------------------------------------------------------------------
(* GapsExact.                                                              *)

(* The numbers in ipc_burst_writer's ring rise, every number between or    *)
(* after them was dropped, and number 1 was not: with room for two         *)
(* messages it finds a place behind number 0.                              *)
Numbers ==
    /\ \A i \in 1 .. Len(q) :
        /\ q[i] >= i - 1
        /\ q[i] + (Len(q) - i) < seq
        /\ seq - 1 - q[i] - (Len(q) - i) <= dropped
    /\ \A i \in 1 .. Len(q) - 1 : q[i] < q[i + 1] /\ (q[i] = 0 => q[i + 1] = 1)
    /\ q # <<>> /\ q[Len(q)] = 0 => seq = 1

(* What ipc_slow_reader has counted as missing and what is missing after   *)
(* its last message was dropped, and number 1 comes after number 0.        *)
NextIs ==
    /\ gap_items + (seq - 1 - last_seq - Len(q)) <= dropped
    /\ last_seq < seq
    /\ q # <<>> => last_seq < q[1]
    /\ last_seq = 0 => IF q = <<>> THEN seq = 1 ELSE q[1] = 1

(* The same for the message it holds, which it checks also when the ring   *)
(* has been ended.                                                         *)
HeldIs ==
    /\ last_seq < q[1]
    /\ gap_items + (q[1] - last_seq - 1) <= dropped
    /\ last_seq = 0 => q[1] = 1

Counted ==
    /\ received = 0 => first_seen = 0 /\ gap_items = 0
    /\ received > 0 =>
        /\ received + gap_items = last_seq - origin + 1
        /\ gap_items <= dropped
        /\ first_seen = 0 => last_seq = 0

BurstInv ==
    program = "burst" =>
        /\ Counted
        /\ live => Numbers
        /\ live /\ rpc \in {"loop", "holding"} /\ received > 0 => NextIs
        /\ rpc = "holding" /\ received > 0 => HeldIs

(* ipc_burst_writer stores the next number behind the others. *)
LEMMA BurstPublishes ==
  ASSUME IpcTypeOK, Numbers, seq' = seq + 1, dropped' = dropped, q' = Append(q, seq)
  PROVE  Numbers' /\ (q # <<>> => q'[1] = q[1])
<1>1. /\ q \in Seq(Nat) /\ seq \in Nat /\ dropped \in Nat
      /\ Len(q) \in Nat /\ Len(q') = Len(q) + 1
      /\ q'[Len(q) + 1] = seq
      /\ \A i \in 1 .. Len(q) : q'[i] = q[i] /\ q[i] \in Nat
  BY DEF IpcTypeOK
<1>2. seq >= Len(q) /\ (Len(q) > 0 => q[Len(q)] < seq /\ (q[Len(q)] = 0 => seq = 1))
  <2>1. CASE Len(q) = 0
    BY <1>1, <2>1
  <2>2. CASE Len(q) > 0
    <3>1. q[1] \in Nat /\ q[Len(q)] \in Nat /\ q # <<>>
      BY <1>1, <2>2
    <3>0. 1 \in 1 .. Len(q) /\ Len(q) \in 1 .. Len(q)
      BY <1>1, <2>2
    <3>2. q[1] + (Len(q) - 1) < seq /\ q[Len(q)] + (Len(q) - Len(q)) < seq
      BY <3>0, Zenon DEF Numbers
    <3>3. q[Len(q)] = 0 => seq = 1
      BY <3>1 DEF Numbers
    <3> QED BY <1>1, <3>1, <3>2, <3>3
  <2> QED BY <1>1, <2>1, <2>2
<1>3. ASSUME NEW i \in 1 .. Len(q')
      PROVE  /\ q'[i] >= i - 1
             /\ q'[i] + (Len(q') - i) < seq'
             /\ seq' - 1 - q'[i] - (Len(q') - i) <= dropped'
  <2>1. CASE i = Len(q) + 1
    BY <1>1, <1>2, <2>1
  <2>2. CASE i \in 1 .. Len(q)
    <3>1. /\ q[i] \in Nat /\ q'[i] = q[i]
          /\ q[i] >= i - 1
          /\ q[i] + (Len(q) - i) < seq
          /\ seq - 1 - q[i] - (Len(q) - i) <= dropped
      BY <1>1, <2>2 DEF Numbers
    <3> DEFINE x == q[i]
               n == Len(q)
    <3>2. x \in Nat /\ n \in Nat /\ i \in 1 .. n /\ q'[i] = x /\ Len(q') = n + 1
      BY <1>1, <2>2, <3>1
    <3>3. x >= i - 1 /\ x + (n - i) < seq /\ seq - 1 - x - (n - i) <= dropped
      BY <3>1
    <3> HIDE DEF x, n
    <3> QED BY <1>1, <3>2, <3>3
  <2> QED BY <1>1, <2>1, <2>2
<1>4. ASSUME NEW i \in 1 .. Len(q') - 1
      PROVE  q'[i] < q'[i + 1] /\ (q'[i] = 0 => q'[i + 1] = 1)
  <2>1. CASE i = Len(q)
    BY <1>1, <1>2, <2>1
  <2>2. CASE i \in 1 .. Len(q) - 1
    <3>1. q'[i] = q[i] /\ q'[i + 1] = q[i + 1]
      BY <1>1, <2>2
    <3>2. q[i] < q[i + 1] /\ (q[i] = 0 => q[i + 1] = 1)
      BY <2>2, Zenon DEF Numbers
    <3> QED BY <3>1, <3>2, Zenon
  <2> QED BY <1>1, <2>1, <2>2
<1>5. q'[Len(q')] = 0 => seq' = 1
  BY <1>1
<1>6. q # <<>> => q'[1] = q[1]
  BY <1>1
<1> QED BY <1>3, <1>4, <1>5, <1>6, Zenon DEF Numbers

(* It drops a number when the ring holds two or more. *)
LEMMA BurstGivesUp ==
  ASSUME IpcTypeOK, Numbers, Len(q) >= limit,
         seq' = seq + 1, dropped' = dropped + 1, q' = q
  PROVE  Numbers' /\ q # <<>>
<1>1. /\ q \in Seq(Nat) /\ seq \in Nat /\ dropped \in Nat
      /\ Len(q) \in Nat /\ Len(q) >= 2
      /\ \A i \in 1 .. Len(q) : q[i] \in Nat
  BY IpcAssumption DEF IpcTypeOK
<1>2. q[Len(q)] # 0
  <2>1. q[Len(q)] >= Len(q) - 1
    BY <1>1 DEF Numbers
  <2> QED BY <1>1, <2>1
<1>3. \A i \in 1 .. Len(q) :
        /\ q[i] >= i - 1
        /\ q[i] + (Len(q) - i) < seq'
        /\ seq' - 1 - q[i] - (Len(q) - i) <= dropped'
  <2> SUFFICES ASSUME NEW i \in 1 .. Len(q)
               PROVE  /\ q[i] >= i - 1
                      /\ q[i] + (Len(q) - i) < seq'
                      /\ seq' - 1 - q[i] - (Len(q) - i) <= dropped'
    OBVIOUS
  <2>1. /\ q[i] \in Nat
        /\ q[i] >= i - 1
        /\ q[i] + (Len(q) - i) < seq
        /\ seq - 1 - q[i] - (Len(q) - i) <= dropped
    BY <1>1, Zenon DEF Numbers
  <2> DEFINE x == q[i]
             n == Len(q)
  <2>2. x \in Nat /\ n \in Nat /\ i \in 1 .. n
    BY <1>1, <2>1
  <2>3. x >= i - 1 /\ x + (n - i) < seq /\ seq - 1 - x - (n - i) <= dropped
    BY <2>1
  <2> HIDE DEF x, n
  <2>4. x >= i - 1 /\ x + (n - i) < seq' /\ seq' - 1 - x - (n - i) <= dropped'
    BY <1>1, <2>2, <2>3
  <2> QED BY <2>4, Zenon DEF x, n
<1>4. q # <<>>
  BY <1>1
<1> QED BY <1>2, <1>3, <1>4 DEF Numbers

(* The reader releases the oldest message, which becomes its last. *)
LEMMA BurstReleases ==
  ASSUME IpcTypeOK, Numbers, q # <<>>, seq' = seq, dropped' = dropped, q' = Tail(q)
  PROVE  /\ Numbers'
         /\ q[1] < seq /\ seq - 1 - q[1] - Len(q') <= dropped
         /\ q' # <<>> => q[1] < q'[1]
         /\ q[1] = 0 => IF q' = <<>> THEN seq = 1 ELSE q'[1] = 1
<1>1. /\ q \in Seq(Nat) /\ seq \in Nat /\ dropped \in Nat
      /\ Len(q) \in Nat /\ Len(q) >= 1 /\ Len(q') = Len(q) - 1 /\ q' \in Seq(Nat)
      /\ \A i \in 1 .. Len(q) : q[i] \in Nat
      /\ \A i \in 1 .. Len(q') : q'[i] = q[i + 1]
  BY DEF IpcTypeOK
<1>2. \A i \in 1 .. Len(q') :
        /\ q'[i] >= i - 1
        /\ q'[i] + (Len(q') - i) < seq'
        /\ seq' - 1 - q'[i] - (Len(q') - i) <= dropped'
  <2> SUFFICES ASSUME NEW i \in 1 .. Len(q')
               PROVE  /\ q'[i] >= i - 1
                      /\ q'[i] + (Len(q') - i) < seq'
                      /\ seq' - 1 - q'[i] - (Len(q') - i) <= dropped'
    OBVIOUS
  <2>1. i + 1 \in 1 .. Len(q) /\ q'[i] = q[i + 1]
    BY <1>1
  <2>2. /\ q[i + 1] \in Nat
        /\ q[i + 1] >= (i + 1) - 1
        /\ q[i + 1] + (Len(q) - (i + 1)) < seq
        /\ seq - 1 - q[i + 1] - (Len(q) - (i + 1)) <= dropped
    BY <1>1, <2>1 DEF Numbers
  <2> QED BY <1>1, <2>1, <2>2
<1>3. \A i \in 1 .. Len(q') - 1 : q'[i] < q'[i + 1] /\ (q'[i] = 0 => q'[i + 1] = 1)
  <2> SUFFICES ASSUME NEW i \in 1 .. Len(q') - 1
               PROVE  q'[i] < q'[i + 1] /\ (q'[i] = 0 => q'[i + 1] = 1)
    OBVIOUS
  <2>1. i + 1 \in 1 .. Len(q) - 1 /\ q'[i] = q[i + 1] /\ q'[i + 1] = q[(i + 1) + 1]
    BY <1>1
  <2> QED BY <2>1 DEF Numbers
<1>4. q' # <<>> => q'[Len(q')] = q[Len(q)] /\ Len(q') >= 1 /\ q'[1] = q[1 + 1]
  BY <1>1
<1>5. q' = <<>> => Len(q) = 1
  <2>1. q' = <<>> => Len(q') = 0
    BY ShortSequences, Zenon
  <2> QED BY <1>1, <2>1
<1>6. q' # <<>> => q[1] < q'[1] /\ (q[1] = 0 => q'[1] = 1)
  BY <1>1, <1>4 DEF Numbers
<1>7. q' = <<>> /\ q[1] = 0 => seq = 1
  BY <1>5 DEF Numbers
<1>8. q[1] < seq /\ seq - 1 - q[1] - Len(q') <= dropped
  <2>1. /\ q[1] \in Nat /\ q[1] + (Len(q) - 1) < seq
        /\ seq - 1 - q[1] - (Len(q) - 1) <= dropped
    BY <1>1 DEF Numbers
  <2> QED BY <1>1, <2>1
<1>9. q' # <<>> /\ q'[Len(q')] = 0 => seq' = 1
  BY <1>4 DEF Numbers
<1> QED BY <1>2, <1>3, <1>6, <1>7, <1>8, <1>9 DEF Numbers

(* ipc_slow_reader counts the message it holds, and what is missing before *)
(* it, unless it has seen no message but number 0.                         *)
LEMMA BurstCounts ==
  ASSUME program = "burst", Checks, IpcTypeOK, HandoverInv, Counted,
         received > 0 => HeldIs
  PROVE  /\ Counted'
         /\ received > 0 => gap_items' = gap_items + (q[1] - last_seq - 1)
         /\ received = 0 => gap_items' = 0
<1>1. /\ q[1] \in Nat /\ Head(q) = q[1]
      /\ received \in Nat /\ last_seq \in Nat /\ first_seen \in Nat
      /\ gap_items \in Nat /\ origin \in Nat /\ dropped \in Nat
  BY DEF Checks, HandoverInv, IpcTypeOK
<1> DEFINE n == q[1]
           gap == IF first_seen # 0 /\ n > last_seq + 1 THEN n - last_seq - 1 ELSE 0
<1>2. /\ first_seen' = IF first_seen = 0 THEN n ELSE first_seen
      /\ gap_items' = gap_items + gap
  BY <1>1 DEF Checks, SlowCheck
<1>3. /\ received' = received + 1 /\ last_seq' = n /\ dropped' = dropped
      /\ origin' = IF received = 0 THEN n ELSE origin
  BY <1>1 DEF Checks, Sent
<1>4. CASE received = 0
  <2>1. gap = 0 /\ gap_items = 0 /\ first_seen = 0
    BY <1>4 DEF Counted
  <2>2. n \in Nat
    BY <1>1
  <2> HIDE DEF n, gap
  <2> QED BY <1>1, <1>2, <1>3, <1>4, <2>1, <2>2 DEF Counted
<1>5. CASE received > 0
  <2>1. /\ received + gap_items = last_seq - origin + 1
        /\ first_seen = 0 => last_seq = 0
    BY <1>5 DEF Counted
  <2>2. /\ last_seq < n
        /\ gap_items + (n - last_seq - 1) <= dropped
        /\ last_seq = 0 => n = 1
    BY <1>5 DEF HeldIs
  <2>3. n \in Nat
    BY <1>1
  <2>4. gap = n - last_seq - 1
    <3> HIDE DEF n
    <3> QED BY <1>1, <2>1, <2>2, <2>3
  <2> HIDE DEF n, gap
  <2>5. first_seen' # 0
    BY <1>1, <1>2, <2>1, <2>2, <2>3
  <2>6. gap_items' = gap_items + (n - last_seq - 1)
    BY <1>2, <2>4
  <2>7. received' + gap_items' = last_seq' - origin' + 1 /\ gap_items' <= dropped'
    BY <1>1, <1>3, <1>5, <2>1, <2>2, <2>3, <2>6
  <2>8. received' # 0
    BY <1>1, <1>3
  <2> QED BY <1>5, <2>5, <2>6, <2>7, <2>8 DEF Counted, n
<1> QED BY <1>1, <1>4, <1>5

LEMMA BurstNext == SharedInv /\ BurstInv /\ [Next]_vars => BurstInv'
<1> SUFFICES ASSUME SharedInv, BurstInv, [Next]_vars PROVE BurstInv'
  OBVIOUS
<1> USE DEF Counts, Sent, RingStays
<1>1. CASE UNCHANGED vars
  BY <1>1 DEF vars, shared, ring, sender, ipc, BurstInv, Counted, Numbers, NextIs, HeldIs
<1>2. CASE program # "burst" /\ program' = program
  BY <1>2, Zenon DEF BurstInv
<1>3. CASE program = "burst" /\ program' = program /\ IpcNext
  <2>1. /\ IpcTypeOK /\ HandoverInv /\ Counted
        /\ live => Numbers
        /\ live /\ rpc \in {"loop", "holding"} /\ received > 0 => NextIs
        /\ rpc = "holding" /\ received > 0 => HeldIs
    BY <1>3 DEF SharedInv, BurstInv, IpcPrograms
  <2> SUFFICES /\ Counted'
               /\ live' => Numbers'
               /\ live' /\ rpc' \in {"loop", "holding"} /\ received' > 0 => NextIs'
               /\ rpc' = "holding" /\ received' > 0 => HeldIs'
    BY DEF BurstInv
  <2>2. CASE SetsUp \/ GoesLive
    <3>1. ~ live /\ received = 0 /\ rpc # "holding" /\ rpc' = rpc /\ Counts
      BY <2>1, <2>2 DEF HandoverInv, SetsUp, GoesLive, SettingUp
    <3>2. Counted'
      BY <2>1, <2>2, <3>1 DEF Counted, SetsUp, GoesLive
    <3>3. live' => q' = <<>>
      BY <2>2, <3>1, Zenon DEF SetsUp, GoesLive
    <3>4. live' => Numbers'
      BY <3>3, ShortSequences DEF Numbers
    <3>5. rpc' # "holding" /\ received' = 0
      BY <3>1, Zenon
    <3> QED BY <3>2, <3>4, <3>5
  <2>3. CASE Acquires \/ StopsSending \/ MovesOn
    <3>1. /\ UNCHANGED <<live, q, seq, dropped>> /\ Counts
          /\ rpc' = "holding" => rpc = "holding"
          /\ rpc' = "loop" => rpc = "loop" \/ received = 0
      BY <2>1, <2>3 DEF Acquires, StopsSending, MovesOn, HandoverInv
    <3> QED BY <2>1, <3>1 DEF Counted, Numbers, NextIs, HeldIs
  <2>4. CASE StartsReading
    BY <2>1, <2>4 DEF StartsReading, Counted, Numbers
  <2>5. CASE Deinits
    BY <2>1, <2>5 DEF Deinits, Counted, HeldIs
  <2>6. CASE Takes
    <3>1. UNCHANGED <<live, q, seq, dropped>> /\ Counts
      BY <2>6 DEF Takes
    <3>2. Counted' /\ Numbers'
      BY <2>1, <2>6, <3>1 DEF Takes, Counted, Numbers
    <3>3. received > 0 => HeldIs
      <4> SUFFICES ASSUME received > 0 PROVE HeldIs
        OBVIOUS
      <4>1. NextIs /\ Numbers /\ q # <<>>
        BY <2>1, <2>6 DEF Takes
      <4> DEFINE n == q[1]
                 len == Len(q)
      <4>2. n \in Nat /\ len \in Nat /\ 1 \in 1 .. Len(q)
        BY <2>1, <4>1 DEF IpcTypeOK
      <4>3. n + (len - 1) < seq
        BY <4>1, <4>2, Zenon DEF Numbers
      <4>4. gap_items + (seq - 1 - last_seq - len) <= dropped
        BY <4>1 DEF NextIs
      <4>5. last_seq < n /\ (last_seq = 0 => n = 1)
        BY <4>1 DEF NextIs
      <4> HIDE DEF n, len
      <4>6. gap_items + (n - last_seq - 1) <= dropped
        BY <2>1, <4>2, <4>3, <4>4 DEF IpcTypeOK
      <4> QED BY <4>5, <4>6 DEF HeldIs, n
    <3>4. received > 0 => NextIs'
      BY <2>1, <2>6, <3>1 DEF Takes, NextIs
    <3> QED BY <2>6, <3>1, <3>2, <3>3, <3>4 DEF Takes, HeldIs
  <2>7. CASE GivesUp
    <3>1. /\ UNCHANGED <<live, q, rpc>> /\ Counts
          /\ seq' = seq + 1 /\ dropped' = dropped + 1 /\ Len(q) >= limit
      BY <2>7 DEF GivesUp
    <3>2. /\ seq \in Nat /\ dropped \in Nat /\ last_seq \in Nat /\ gap_items \in Nat
          /\ Len(q) \in Nat
      BY <2>1 DEF IpcTypeOK
    <3>3. Counted'
      BY <2>1, <3>1, <3>2 DEF Counted
    <3>4. live => Numbers' /\ q # <<>>
      BY <2>1, <3>1, BurstGivesUp
    <3>5. live /\ NextIs => NextIs'
      BY <3>1, <3>2, <3>4 DEF NextIs
    <3>6. rpc = "holding" /\ HeldIs => HeldIs'
      <4> SUFFICES ASSUME rpc = "holding", HeldIs PROVE HeldIs'
        OBVIOUS
      <4>1. q[1] \in Nat
        BY <2>1 DEF HandoverInv, IpcTypeOK
      <4> QED BY <3>1, <3>2, <4>1 DEF HeldIs
    <3> QED BY <2>1, <3>1, <3>3, <3>4, <3>5, <3>6
  <2>8. CASE Publishes
    <3>1. /\ UNCHANGED <<live, dropped, rpc>> /\ Counts /\ seq' = seq + 1
          /\ q' = IF live THEN Append(q, seq) ELSE q
      BY <1>3, <2>1, <2>8 DEF Publishes, HandoverInv, Number
    <3>2. /\ seq \in Nat /\ dropped \in Nat /\ last_seq \in Nat /\ gap_items \in Nat
          /\ Len(q) \in Nat
      BY <2>1 DEF IpcTypeOK
    <3>3. Counted'
      BY <2>1, <3>1 DEF Counted
    <3>4. CASE ~ live
      BY <2>1, <3>1, <3>3, <3>4 DEF HeldIs
    <3>5. CASE live
      <4>1. q' = Append(q, seq)
        BY <3>1, <3>5
      <4>2. Numbers' /\ (q # <<>> => q'[1] = q[1])
        BY <2>1, <3>1, <3>5, <4>1, BurstPublishes
      <4>3. Len(q') = Len(q) + 1 /\ q' # <<>> /\ (q = <<>> => q'[1] = seq)
        BY <2>1, <4>1 DEF IpcTypeOK
      <4>4. NextIs => NextIs'
        BY <3>1, <3>2, <4>2, <4>3 DEF NextIs
      <4>5. rpc = "holding" => q # <<>>
        BY <2>1 DEF HandoverInv
      <4>6. rpc = "holding" /\ HeldIs => HeldIs'
        BY <3>1, <4>2, <4>5 DEF HeldIs
      <4> QED BY <2>1, <3>1, <3>3, <3>5, <4>2, <4>4, <4>6
    <3> QED BY <3>4, <3>5
  <2>9. CASE Checks
    <3>1. /\ UNCHANGED <<live, seq, dropped>> /\ rpc = "holding" /\ rpc' = "loop"
          /\ q \in Seq(Nat) /\ q # <<>> /\ (live => active)
          /\ q' = IF live THEN Tail(q) ELSE q
          /\ last_seq' = q[1]
      BY <2>1, <2>9 DEF Checks, HandoverInv, IpcTypeOK
    <3>2. /\ Counted'
          /\ received > 0 => gap_items' = gap_items + (q[1] - last_seq - 1)
          /\ received = 0 => gap_items' = 0
      BY <1>3, <2>1, <2>9, <3>1, BurstCounts
    <3>3. CASE ~ live
      BY <3>1, <3>2, <3>3
    <3>4. CASE live
      <4>1. /\ Numbers'
            /\ q[1] < seq /\ seq - 1 - q[1] - Len(q') <= dropped
            /\ q' # <<>> => q[1] < q'[1]
            /\ q[1] = 0 => IF q' = <<>> THEN seq = 1 ELSE q'[1] = 1
        <5>1. IpcTypeOK /\ Numbers /\ seq' = seq /\ dropped' = dropped /\ q' = Tail(q)
          BY <2>1, <3>1, <3>4, Zenon
        <5> QED BY <3>1, <5>1, BurstReleases, Zenon
      <4>2. gap_items' + (seq - 1 - q[1] - Len(q')) <= dropped
        <5> DEFINE n == q[1]
                   len == Len(q')
        <5>1. /\ n \in Nat /\ len \in Nat
              /\ seq \in Nat /\ dropped \in Nat /\ last_seq \in Nat /\ gap_items \in Nat
              /\ received \in Nat
          BY <2>1, <3>1, <3>4 DEF IpcTypeOK
        <5>2. CASE received = 0
          BY <3>2, <4>1, <5>1, <5>2
        <5>3. CASE received > 0
          <6>1. gap_items + (seq - 1 - last_seq - (len + 1)) <= dropped
            <7>1. Len(q) = len + 1
              BY <3>1, <3>4
            <7> QED BY <2>1, <3>1, <3>4, <5>3, <7>1 DEF NextIs
          <6>2. gap_items' = gap_items + (n - last_seq - 1)
            BY <3>2, <5>3
          <6> HIDE DEF n, len
          <6>3. gap_items' + (seq - 1 - n - len) <= dropped
            BY <5>1, <6>1, <6>2
          <6> QED BY <6>3 DEF n, len
        <5> QED BY <5>1, <5>2, <5>3
      <4>3. NextIs'
        BY <3>1, <4>1, <4>2 DEF NextIs
      <4> QED BY <3>1, <3>2, <4>1, <4>3, Zenon
    <3> QED BY <3>3, <3>4
  <2> QED BY <1>3, IpcKinds, <2>2, <2>3, <2>4, <2>5, <2>6, <2>7, <2>8, <2>9
<1> QED BY <1>1, <1>2, <1>3, OneProgram, SMTT(30) DEF IpcPrograms, InprocPrograms, BenchPrograms

(* ipc_slow_reader's gap_items is exact: with what it received it makes up *)
(* the numbers from its first message to its last, and ipc_burst_writer    *)
(* dropped every one of them.                                              *)
THEOREM GapsAreExact == Spec => []GapsExact
<1>1. Init => BurstInv
  <2> SUFFICES ASSUME Init, program = "burst" PROVE BurstInv
    BY DEF BurstInv
  <2>1. IpcInit
    BY DEF Init, InprocInit, InprocPrograms, BenchPrograms
  <2> QED BY <2>1 DEF IpcInit, BurstInv, Counted
<1>2. BurstInv => GapsExact
  BY DEF BurstInv, Counted, GapsExact
<1> QED BY <1>1, <1>2, SharedInit, SharedNext, BurstNext, PTL DEF Spec

=============================================================================
