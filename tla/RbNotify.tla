------------------------------ MODULE RbNotify ------------------------------
(***************************************************************************)
(* The notification path of rb.c (RB_ENABLE_NOTIFY): the futex and eventfd *)
(* signals at the end of rb_publish_ex, rb_wait with its sleep in slices,  *)
(* and the two consumer loops that use them, the one of notify_threaded.c  *)
(* around rb_wait and the poll loop around the eventfd.                    *)
(*                                                                         *)
(* The ring itself is reduced to its two counters; module Rb has the rest. *)
(* head is what other threads see; head_store is what the producer has     *)
(* stored.  They differ while the store waits in a store buffer, which the *)
(* release store followed by a relaxed load of notify_waiters allows; a    *)
(* system call or a sequentially consistent store empties the buffer.      *)
(***************************************************************************)
EXTENDS RbArith

CONSTANTS
    limit,
    StoreBuffer         \* whether a release store may be overtaken by later loads

ASSUME NotifyAssumption ==
    /\ limit \in Nat \ {0} /\ limit < W
    /\ StoreBuffer \in BOOLEAN

VARIABLES
    head, head_store, tail,
    notify_waiters,
    notify_fd,          \* the eventfd is open, and polled instead of rb_wait
    readable,           \* its counter is not zero
    producer_done,      \* the example's flag
    expected,           \* rb_wait's argument
    timed, late,        \* timeout_ms >= 0; the deadline has passed
    got,                \* rb_drain's n > 0
    ppc, cpc

ring == <<head, head_store, tail>>
fd == <<notify_fd, readable>>
args == <<expected, timed, late, got>>
vars == <<ring, notify_waiters, fd, producer_done, args, ppc, cpc>>

Init ==
    /\ head = 0 /\ head_store = 0 /\ tail = 0
    /\ notify_waiters = 0 /\ readable = FALSE /\ producer_done = FALSE
    /\ expected = 0 /\ timed = FALSE /\ late = FALSE /\ got = FALSE
    /\ notify_fd \in BOOLEAN    \* rb_notify_fd, before the threads start
    /\ ppc = "idle" /\ cpc = "loop"

-----------------------------------------------------------------------------
(* The producer.                                                           *)

(* rb_acquire succeeds and rb_publish_ex stores the new head. *)
Publish ==
    /\ ppc = "idle" /\ ~ producer_done
    /\ Sub(head_store, tail) < limit
    /\ head_store' = Inc(head_store)
    /\ head' = IF StoreBuffer THEN head ELSE head_store'
    /\ ppc' = "waiters"
    /\ UNCHANGED <<tail, notify_waiters, fd, producer_done, args, cpc>>

(* The store buffer lets a store out. *)
FlushHead ==
    /\ head # head_store
    /\ head' = Inc(head)
    /\ UNCHANGED <<head_store, tail, notify_waiters, fd, producer_done,
                   args, ppc, cpc>>

LoadWaiters ==
    /\ ppc = "waiters"
    /\ ppc' = IF notify_waiters # 0 THEN "wake" ELSE "fd"
    /\ UNCHANGED <<ring, notify_waiters, fd, producer_done, args, cpc>>

(* rb_futex_wake: a sleeper's system call returns 0, and rb_wait leaves. *)
rb_futex_wake ==
    /\ ppc = "wake"
    /\ head' = head_store
    /\ cpc' = IF cpc = "asleep" THEN "leave" ELSE cpc
    /\ ppc' = "fd"
    /\ UNCHANGED <<head_store, tail, notify_waiters, fd, producer_done, args>>

(* Mutant: only the publication that ends an empty ring signals. *)
WriteFdOnEdge ==
    /\ ppc = "fd"
    /\ readable' = (readable \/ (notify_fd /\ Sub(head_store, tail) = 1))
    /\ ppc' = "idle"
    /\ UNCHANGED <<notify_fd, ring, notify_waiters, producer_done, args, cpc>>

(* The eventfd is written after every publication, if there is one. *)
WriteFd ==
    /\ ppc = "fd"
    /\ readable' = (readable \/ notify_fd)
    /\ head' = IF notify_fd THEN head_store ELSE head
    /\ ppc' = "idle"
    /\ UNCHANGED <<head_store, tail, notify_waiters, notify_fd, producer_done, args,
                   cpc>>

(* producer_fn has published its items. *)
Finish ==
    /\ ppc = "idle" /\ ~ producer_done /\ ~ notify_fd
    /\ producer_done' = TRUE
    /\ head' = head_store
    /\ UNCHANGED <<head_store, tail, notify_waiters, fd, args, ppc, cpc>>

-----------------------------------------------------------------------------
(* The consumer's loop: rb_notify_value before rb_drain, then rb_wait; or  *)
(* poll, rb_notify_drain_fd, rb_drain.                                     *)

rb_notify_value ==
    /\ cpc = "loop" /\ ~ notify_fd
    /\ expected' = head
    /\ got' = FALSE
    /\ cpc' = "drain"
    /\ UNCHANGED <<ring, notify_waiters, fd, producer_done, timed, late, ppc>>

(* poll returns, and the eventfd is read until it would block. *)
rb_notify_drain_fd ==
    /\ cpc = "loop" /\ notify_fd /\ readable
    /\ readable' = FALSE
    /\ cpc' = "drain"
    /\ UNCHANGED <<notify_fd, ring, notify_waiters, producer_done, args, ppc>>

(* rb_drain takes one message, ... *)
DrainOne ==
    /\ cpc = "drain" /\ head # tail
    /\ tail' = Inc(tail)
    /\ got' = TRUE
    /\ UNCHANGED <<head, head_store, notify_waiters, fd, producer_done,
                   expected, timed, late, ppc, cpc>>

(* ... or finds the ring empty. *)
DrainEmpty ==
    /\ cpc = "drain" /\ head = tail
    /\ cpc' = IF notify_fd \/ got THEN "loop" ELSE "check"
    /\ UNCHANGED <<ring, notify_waiters, fd, producer_done, args, ppc>>

CheckDone ==
    /\ cpc = "check"
    /\ cpc' = IF producer_done THEN "done" ELSE "wait"
    /\ UNCHANGED <<ring, notify_waiters, fd, producer_done, args, ppc>>

-----------------------------------------------------------------------------
(* rb_wait.                                                                *)

Waiting == {"recount", "futex", "asleep", "eintr", "leave"}

(* Entry, with a timeout or without one: returns at once on messages. *)
WaitEnter ==
    /\ cpc = "wait"
    /\ \/ /\ head # tail
          /\ cpc' = "loop"
          /\ UNCHANGED <<notify_waiters, timed, late>>
       \/ /\ head = tail
          /\ notify_waiters' = notify_waiters + 1
          /\ timed' \in BOOLEAN
          /\ late' = FALSE
          /\ cpc' = "recount"
    /\ UNCHANGED <<ring, fd, producer_done, expected, got, ppc>>

(* Mutant: the deadline is computed anew for every slice. *)
WaitRecountAnew ==
    /\ cpc = "recount"
    /\ cpc' = IF head # tail THEN "leave" ELSE "futex"
    /\ late' = FALSE
    /\ UNCHANGED <<ring, notify_waiters, fd, producer_done, expected, timed,
                   got, ppc>>

(* Top of the loop: the count, then the deadline. *)
WaitRecount ==
    /\ cpc = "recount"
    /\ cpc' = IF head # tail \/ (timed /\ late) THEN "leave" ELSE "futex"
    /\ UNCHANGED <<ring, notify_waiters, fd, producer_done, args, ppc>>

(* Mutant: the sleep does not compare the sequence. *)
SleepAnyway ==
    /\ cpc = "futex"
    /\ cpc' = "asleep"
    /\ UNCHANGED <<ring, notify_waiters, fd, producer_done, args, ppc>>

(* Mutant: a sequence that has moved on returns from rb_wait directly. *)
FutexWaitReturns ==
    /\ cpc = "futex"
    /\ cpc' = IF head # expected THEN "loop" ELSE "asleep"
    /\ UNCHANGED <<ring, notify_waiters, fd, producer_done, args, ppc>>

(* FUTEX_WAIT compares and sleeps in one step of the kernel; EAGAIN leaves. *)
rb_futex_wait ==
    /\ cpc = "futex"
    /\ cpc' = IF head # expected THEN "leave" ELSE "asleep"
    /\ UNCHANGED <<ring, notify_waiters, fd, producer_done, args, ppc>>

(* Mutant: an infinite wait sleeps in one piece. *)
SliceEndsIfTimed ==
    /\ cpc = "asleep" /\ timed
    /\ cpc' = IF late THEN "leave" ELSE "recount"
    /\ UNCHANGED <<ring, notify_waiters, fd, producer_done, args, ppc>>

(* ETIMEDOUT after RB_NOTIFY_WAIT_SLICE_MS or at the deadline. *)
SliceEnds ==
    /\ cpc = "asleep"
    /\ cpc' = IF timed /\ late THEN "leave" ELSE "recount"
    /\ UNCHANGED <<ring, notify_waiters, fd, producer_done, args, ppc>>

(* A signal handler ran: EINTR ... *)
Interrupt ==
    /\ cpc = "asleep"
    /\ cpc' = "eintr"
    /\ UNCHANGED <<ring, notify_waiters, fd, producer_done, args, ppc>>

(* ... continues the loop. *)
AfterInterrupt ==
    /\ cpc = "eintr"
    /\ cpc' = "recount"
    /\ UNCHANGED <<ring, notify_waiters, fd, producer_done, args, ppc>>

(* The clock passes the deadline. *)
Deadline ==
    /\ cpc \in Waiting /\ timed /\ ~ late
    /\ late' = TRUE
    /\ UNCHANGED <<ring, notify_waiters, fd, producer_done, expected, timed,
                   got, ppc, cpc>>

WaitLeave ==
    /\ cpc = "leave"
    /\ notify_waiters' = notify_waiters - 1
    /\ cpc' = "loop"
    /\ UNCHANGED <<ring, fd, producer_done, args, ppc>>

-----------------------------------------------------------------------------
Signal == LoadWaiters \/ rb_futex_wake \/ WriteFd

Consumer ==
    \/ rb_notify_value \/ rb_notify_drain_fd \/ DrainOne \/ DrainEmpty \/ CheckDone
    \/ WaitEnter \/ WaitRecount \/ rb_futex_wait \/ SliceEnds \/ AfterInterrupt
    \/ WaitLeave

Next == Publish \/ FlushHead \/ Signal \/ Finish \/ Consumer \/ Interrupt \/ Deadline

Spec == Init /\ [][Next]_vars

(* A publication once begun is finished, stores become visible, the        *)
(* consumer runs, sleeps end and time passes.  Nothing makes the producer  *)
(* publish or finish, nor a signal arrive.                                 *)
FairSpec ==
    Spec /\ WF_vars(Signal) /\ WF_vars(FlushHead) /\ WF_vars(Consumer)
         /\ WF_vars(Deadline)

=============================================================================
