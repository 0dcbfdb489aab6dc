--------------------------- MODULE RbNotifyProofs ---------------------------
(***************************************************************************)
(* The wake-up protocol of rb_wait and rb_publish_ex, for every word size  *)
(* and limit.                                                              *)
(***************************************************************************)
EXTENDS RbNotifyProps, TLAPS

LEMMA NotifyWordOps ==
  ASSUME NEW a \in Word
  PROVE  Inc(a) \in Word
BY WordAssumption DEF Word, Inc

LEMMA NotifyTypeInit == Init => TypeOK
<1>1. 0 \in Word
  BY WordAssumption DEF Word
<1> QED BY <1>1 DEF Init, TypeOK, Waiting

LEMMA NotifyTypeNext == TypeOK /\ [Next]_vars => TypeOK'
<1> SUFFICES ASSUME TypeOK, [Next]_vars PROVE TypeOK'
  OBVIOUS
<1> USE DEF TypeOK, Waiting, ring, args, fd
<1>1. CASE Publish
  BY <1>1, NotifyWordOps DEF Publish
<1>2. CASE FlushHead
  BY <1>2, NotifyWordOps DEF FlushHead
<1>3. CASE Signal
  BY <1>3 DEF Signal, LoadWaiters, rb_futex_wake, WriteFd
<1>4. CASE Finish
  BY <1>4 DEF Finish
<1>5. CASE rb_notify_value \/ rb_notify_drain_fd \/ DrainEmpty \/ CheckDone
  <2>1. CASE rb_notify_value
    BY <2>1 DEF rb_notify_value
  <2>2. CASE rb_notify_drain_fd
    BY <2>2 DEF rb_notify_drain_fd
  <2>3. CASE DrainEmpty
    BY <2>3 DEF DrainEmpty
  <2>4. CASE CheckDone
    BY <2>4 DEF CheckDone
  <2> QED BY <1>5, <2>1, <2>2, <2>3, <2>4, Zenon
<1>6. CASE DrainOne
  BY <1>6, NotifyWordOps DEF DrainOne
<1>7. CASE WaitEnter
  <2>1. notify_waiters = 0 /\ 0 + 1 = 1
    BY <1>7 DEF WaitEnter
  <2>2. notify_waiters' = IF cpc' \in Waiting THEN 1 ELSE 0
    BY <1>7, <2>1 DEF WaitEnter
  <2> QED BY <1>7, <2>2 DEF WaitEnter
<1>8. CASE WaitRecount \/ rb_futex_wait \/ SliceEnds \/ AfterInterrupt \/ Interrupt
  BY <1>8 DEF WaitRecount, rb_futex_wait, SliceEnds, AfterInterrupt, Interrupt
<1>9. CASE WaitLeave
  <2>1. notify_waiters = 1 /\ 1 - 1 = 0
    BY <1>9 DEF WaitLeave
  <2>2. notify_waiters' = 0
    BY <1>9, <2>1 DEF WaitLeave
  <2> QED BY <1>9, <2>2 DEF WaitLeave
<1>10. CASE Deadline
  BY <1>10 DEF Deadline
<1>11. CASE UNCHANGED vars
  BY <1>11 DEF vars
<1> QED
  BY <1>1, <1>2, <1>3, <1>4, <1>5, <1>6, <1>7, <1>8, <1>9, <1>10, <1>11
     DEF Next, Consumer

(* notify_waiters is one exactly while the consumer is inside rb_wait,     *)
(* whatever return path it takes, and the other fields keep their ranges.  *)
THEOREM WaitersCounted == Spec => []TypeOK
BY NotifyTypeInit, NotifyTypeNext, PTL DEF Spec

(* With stores visible at once, a sleeper on an old sequence is about to   *)
(* be woken: the waiter count is raised before the sequence is compared,   *)
(* and the sequence is stored before the waiter count is loaded.           *)
WakeInv == head = head_store /\ NoLostWake

LEMMA WakeNext ==
  ASSUME ~ StoreBuffer, TypeOK, WakeInv, [Next]_vars
  PROVE  WakeInv'
<1> USE DEF WakeInv, NoLostWake
<1>1. CASE Publish
  BY <1>1 DEF Publish
<1>2. CASE FlushHead
  BY <1>2 DEF FlushHead
<1>3. CASE LoadWaiters
  <2>1. cpc = "asleep" => notify_waiters # 0
    BY DEF TypeOK, Waiting
  <2> QED BY <1>3, <2>1 DEF LoadWaiters, ring, args, fd
<1>4. CASE rb_futex_wake \/ WriteFd \/ Finish
  BY <1>4 DEF rb_futex_wake, WriteFd, Finish, args, fd
<1>5. CASE rb_notify_value \/ rb_notify_drain_fd \/ DrainOne \/ DrainEmpty \/ CheckDone
  BY <1>5 DEF rb_notify_value, rb_notify_drain_fd, DrainOne, DrainEmpty, CheckDone,
     ring, args, fd
<1>6. CASE WaitEnter \/ WaitRecount \/ rb_futex_wait \/ SliceEnds \/ AfterInterrupt
  BY <1>6 DEF WaitEnter, WaitRecount, rb_futex_wait, SliceEnds, AfterInterrupt,
     ring, args, fd
<1>7. CASE Interrupt \/ Deadline \/ WaitLeave
  BY <1>7 DEF Interrupt, Deadline, WaitLeave, ring, args, fd
<1>8. CASE UNCHANGED vars
  BY <1>8 DEF vars, ring, args, fd
<1> QED
  BY <1>1, <1>2, <1>3, <1>4, <1>5, <1>6, <1>7, <1>8 DEF Next, Signal, Consumer

(* If the load of notify_waiters is not allowed to overtake the store of   *)
(* head, no publication leaves the consumer asleep on an old sequence.     *)
THEOREM WakeIsSent ==
  ASSUME ~ StoreBuffer
  PROVE  Spec => []NoLostWake
<1>1. Init => WakeInv
  BY DEF Init, WakeInv, NoLostWake
<1>2. TypeOK /\ WakeInv /\ [Next]_vars => WakeInv'
  BY WakeNext
<1>3. WakeInv => NoLostWake
  BY DEF WakeInv
<1> QED BY <1>1, <1>2, <1>3, WaitersCounted, PTL DEF Spec

=============================================================================
