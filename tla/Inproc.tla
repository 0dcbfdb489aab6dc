------------------------------- MODULE Inproc -------------------------------
(***************************************************************************)
(* The example programs that run a ring between the threads of one         *)
(* process.  backpressure_inproc.c starts a producer thread, joins it, and *)
(* drains the ring in main; the ring's callbacks set and clear             *)
(* stop_reading.  backpressure_bench.c runs a producer and a consumer      *)
(* thread, one of three kinds (poll, futex, uv), for some seconds.  Both   *)
(* start here after rb_init.                                               *)
(*                                                                         *)
(* The test of stop comes after the publication before it: the             *)
(* read-modify-write of produced stands between them.  rb_wait may return  *)
(* at any time, as its timeout allows; module RbNotify models it.          *)
(***************************************************************************)
EXTENDS ExampleRing

CONSTANT low_d          \* percent, of backpressure_inproc's ring

ASSUME InprocAssumption == low_d \in 0 .. 100

VARIABLES
    mpc,                \* main
    stop_reading, full_latch,
    stop,               \* ctx.stop of backpressure_bench
    readable            \* the eventfd's count is not 0

inproc == <<mpc, stop_reading, full_latch, stop, readable>>

BenchPrograms == {"poll", "futex", "uv"}
InprocPrograms == {"inproc"} \cup BenchPrograms

InprocInit ==
    /\ program \in InprocPrograms
    /\ drop_mode \in IF program = "inproc" THEN BOOLEAN ELSE {FALSE}
    /\ RingIs(TRUE)
    /\ wpc = "off" /\ seq = 0 /\ dropped = 0
    /\ rpc = "off" /\ received = 0
    /\ mpc = "start"
    /\ stop_reading = FALSE /\ full_latch = FALSE /\ stop = FALSE /\ readable = FALSE

Fixed == UNCHANGED <<program, drop_mode>>

(* below_low(), on a count that main's thread alone changes. *)
below_low(count) == low_d # 0 /\ count * 100 < limit * low_d

(* A thread starts with its function; a join returns when it has ended. *)
rb_thread_spawn(pc, first) == pc = "off" /\ pc' = first
rb_thread_join(pc) == pc = "ended"

-----------------------------------------------------------------------------
(* backpressure_inproc: seq is i, produced is seq - dropped.               *)

produced == seq - dropped

on_full == full_latch' = TRUE /\ stop_reading' = TRUE
on_low_d == full_latch' = FALSE /\ stop_reading' = FALSE

(* producer_fn; with stop_reading set it sleeps, unless it drops. *)
InprocProducer ==
    /\ program = "inproc"
    /\ \/ /\ wpc = "loop" /\ seq = Total
          /\ wpc' = "ended"
          /\ UNCHANGED <<ring, seq, dropped, stop_reading, full_latch>>
       \/ /\ wpc = "loop" /\ seq < Total
          /\ ~ stop_reading \/ drop_mode
          /\ \/ /\ rb_acquire
                /\ wpc' = "publish"
                /\ UNCHANGED <<seq, dropped, stop_reading>>
             \/ /\ acquire_full /\ drop_mode
                /\ dropped' = dropped + 1 /\ seq' = seq + 1
                /\ UNCHANGED <<ring, wpc, stop_reading>>
             \/ /\ acquire_full /\ ~ drop_mode
                /\ stop_reading' = TRUE
                /\ UNCHANGED <<ring, wpc, seq, dropped>>
          /\ UNCHANGED full_latch
       \/ /\ wpc = "publish"
          /\ rb_publish(seq)
          /\ IF Len(q') >= limit /\ ~ full_latch
             THEN on_full
             ELSE UNCHANGED <<full_latch, stop_reading>>
          /\ seq' = seq + 1
          /\ wpc' = "loop"
          /\ UNCHANGED dropped
    /\ UNCHANGED <<rpc, received, mpc, stop, readable>> /\ Fixed

(* Mutant: the loop waits for messages that were dropped. *)
DrainWaitsForAll ==
    /\ mpc = "drain" /\ consume_empty
    /\ produced >= Total
    /\ mpc' = "end"
    /\ UNCHANGED <<ring, received, stop_reading, full_latch>>

(* rb_drain returned 0 and every item was produced or dropped. *)
DrainDone ==
    /\ mpc = "drain" /\ consume_empty
    /\ produced + dropped >= Total
    /\ mpc' = "end"
    /\ UNCHANGED <<ring, received, stop_reading, full_latch>>

(* main: spawn, join, and then the drain loop with on_item, which counts. *)
InprocMain ==
    /\ program = "inproc"
    /\ \/ /\ mpc = "start"
          /\ rb_thread_spawn(wpc, "loop") /\ mpc' = "join"
          /\ UNCHANGED <<ring, received, stop_reading, full_latch>>
       \/ /\ UNCHANGED wpc
          /\ \/ /\ mpc = "join" /\ rb_thread_join(wpc)
                /\ mpc' = "drain"
                /\ UNCHANGED <<ring, received, stop_reading, full_latch>>
             \/ /\ mpc = "drain"
                /\ rb_consume
                /\ mpc' = "on_item"
                /\ UNCHANGED <<received, stop_reading, full_latch>>
             \/ /\ mpc = "on_item"
                /\ received' = received + 1
                /\ rb_release
                /\ IF ~ below_low(Len(q)) /\ below_low(Len(q'))
                   THEN on_low_d
                   ELSE UNCHANGED <<full_latch, stop_reading>>
                /\ mpc' = "drain"
             \/ DrainDone
             \/ /\ mpc = "end"
                /\ rb_deinit
                /\ mpc' = "done"
                /\ UNCHANGED <<received, stop_reading, full_latch>>
    /\ UNCHANGED <<seq, dropped, rpc, stop, readable>> /\ Fixed

-----------------------------------------------------------------------------
(* backpressure_bench.                                                     *)

ProducerOnly == UNCHANGED <<dropped, rpc, received, mpc, stop_reading, full_latch, stop>>

(* Mutant: on a full ring the producer tries again without a look at stop. *)
ProducerTopStuck ==
    /\ wpc = "loop"
    /\ \/ /\ stop /\ ~ acquire_full
          /\ wpc' = "ended" /\ UNCHANGED ring
       \/ /\ ~ stop /\ rb_acquire
          /\ wpc' = "publish"
    /\ UNCHANGED <<seq, readable>> /\ ProducerOnly

(* The loop's test of stop, and rb_acquire; on a full ring it yields. *)
ProducerTop ==
    /\ wpc = "loop"
    /\ \/ /\ stop
          /\ wpc' = "ended" /\ UNCHANGED ring
       \/ /\ ~ stop /\ rb_acquire
          /\ wpc' = "publish"
    /\ UNCHANGED <<seq, readable>> /\ ProducerOnly

(* producer_fn: read() fills the message or fails; rb_publish stores head  *)
(* and then writes to the eventfd.                                         *)
BenchProducer ==
    /\ program \in BenchPrograms
    /\ \/ ProducerTop
       \/ /\ wpc = "publish"
          /\ rb_abort
          /\ wpc' = "ended"
          /\ UNCHANGED <<seq, readable>> /\ ProducerOnly
       \/ /\ wpc = "publish" /\ seq < Total
          /\ rb_publish(seq)
          /\ seq' = seq + 1
          /\ wpc' = "notify"
          /\ UNCHANGED readable /\ ProducerOnly
       \/ /\ wpc = "notify"
          /\ readable' = TRUE
          /\ wpc' = "loop"
          /\ UNCHANGED <<ring, seq>> /\ ProducerOnly
    /\ Fixed

ConsumerOnly ==
    UNCHANGED <<sender, mpc, stop_reading, full_latch, stop>> /\ Fixed

Step(from, to) ==
    /\ rpc = from /\ rpc' = to
    /\ UNCHANGED <<ring, received, readable>> /\ ConsumerOnly

(* consume_all: rb_drain with on_item, from pc "at" until the ring is      *)
(* empty, and then to pc "next".                                           *)
consume_all(at, item, next) ==
    \/ consume_empty /\ Step(at, next)
    \/ /\ rpc = at /\ rpc' = item
       /\ rb_consume
       /\ UNCHANGED <<received, readable>> /\ ConsumerOnly
    \/ /\ rpc = item /\ rpc' = at
       /\ rb_release
       /\ received' = received + 1
       /\ UNCHANGED readable /\ ConsumerOnly

(* Mutant: nothing is consumed once stop is seen. *)
PollNoLast ==
    /\ program = "poll"
    /\ \/ ~ stop /\ Step("top", "drain")
       \/ consume_all("drain", "item", "top")
       \/ stop /\ Step("top", "ended")

consumer_poll_fn ==
    /\ program = "poll"
    /\ \/ ~ stop /\ Step("top", "drain")
       \/ consume_all("drain", "item", "top")
       \/ stop /\ Step("top", "last")
       \/ consume_all("last", "last_item", "ended")

(* The timeout of rb_wait lets it return on a quiet ring. *)
consumer_futex_fn ==
    /\ program = "futex"
    /\ \/ Step("top", "drain")
       \/ consume_all("drain", "item", "test")
       \/ stop /\ Step("test", "ended")
       \/ ~ stop /\ Step("test", "wait")
       \/ Step("wait", "top")

(* Mutant: the eventfd is drained when the callback returns. *)
UvReadyDrainLast ==
    \/ readable /\ Step("loop", "drain")
    \/ consume_all("drain", "item", "count")
    \/ q # <<>> /\ Step("count", "drain")
    \/ /\ q = <<>> /\ rpc = "count" /\ rpc' = "drain_fd"
       /\ UNCHANGED <<ring, received, readable>> /\ ConsumerOnly
    \/ /\ rpc = "drain_fd" /\ rpc' = "loop"
       /\ readable' = FALSE
       /\ UNCHANGED <<ring, received>> /\ ConsumerOnly

(* The loop calls it while the eventfd is readable. *)
uv_on_ready ==
    \/ readable /\ Step("loop", "drain_fd")
    \/ /\ rpc = "drain_fd" /\ rpc' = "drain"
       /\ readable' = FALSE
       /\ UNCHANGED <<ring, received>> /\ ConsumerOnly
    \/ consume_all("drain", "item", "count")
    \/ q # <<>> /\ Step("count", "drain_fd")
    \/ q = <<>> /\ Step("count", "loop")

(* uv_stop ends uv_run. *)
uv_on_tick == stop /\ Step("loop", "ended")

(* A step of the set-up may fail: the thread returns at once. *)
consumer_uv_fn ==
    /\ program = "uv"
    /\ \/ Step("top", "ended") \/ Step("top", "loop")
       \/ uv_on_ready \/ uv_on_tick

(* rb_thread_spawn of the producer and of the consumer, the sleep, stop,   *)
(* the two rb_thread_joins, and rb_deinit.                                 *)
BenchMain ==
    /\ program \in BenchPrograms
    /\ \/ /\ mpc = "start" /\ mpc' = "spawn"
          /\ rb_thread_spawn(wpc, "loop")
          /\ UNCHANGED <<ring, rpc, stop>>
       \/ /\ mpc = "spawn" /\ mpc' = "sleep"
          /\ rb_thread_spawn(rpc, "top")
          /\ UNCHANGED <<ring, wpc, stop>>
       \/ /\ mpc = "sleep" /\ mpc' = "join"
          /\ stop' = TRUE
          /\ UNCHANGED <<ring, wpc, rpc>>
       \/ /\ mpc = "join" /\ rb_thread_join(wpc) /\ rb_thread_join(rpc)
          /\ mpc' = "done"
          /\ rb_deinit
          /\ UNCHANGED <<wpc, rpc, stop>>
    /\ UNCHANGED <<seq, dropped, received, stop_reading, full_latch, readable>> /\ Fixed

Producer == InprocProducer \/ BenchProducer
Consumer == consumer_poll_fn \/ consumer_futex_fn \/ consumer_uv_fn
Main == InprocMain \/ BenchMain
InprocNext == Producer \/ Consumer \/ Main

-----------------------------------------------------------------------------
(* Properties.                                                             *)

(* backpressure_inproc ends with every item consumed or dropped when it    *)
(* runs with -m drop.  In its default mode it does not end once the ring   *)
(* is full: main joins the producer before it drains, and the producer     *)
(* waits for the on_low_d that only draining would call.                   *)
InprocEnds ==
    (program = "inproc" /\ drop_mode) ~> (mpc = "done" /\ received + dropped = Total)

(* backpressure_bench ends once stop is set, whatever state the ring is    *)
(* in and whichever consumer is left: no thread waits for the other.       *)
BenchEnds == stop ~> (mpc = "done")

(* The polling consumer's last consume_all leaves at most one message: the *)
(* one the producer published after a test of stop that came too early.    *)
PollLeavesOne == program = "poll" /\ wpc = "ended" /\ rpc = "ended" => Len(q) <= 1

(* The eventfd is drained before the ring: the loop never goes back to     *)
(* polling with a message in the ring and no event left to report it.      *)
UvReported ==
    program = "uv" /\ rpc = "loop" /\ q # <<>> => readable \/ wpc = "notify"

=============================================================================
