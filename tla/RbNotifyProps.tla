--------------------------- MODULE RbNotifyProps ---------------------------
(***************************************************************************)
(* What the notification path guarantees, and what is said of it.          *)
(***************************************************************************)
EXTENDS RbNotify

(* No field leaves its range, and notify_waiters counts the consumer       *)
(* exactly while it is inside rb_wait: it never goes below zero and no     *)
(* return path forgets the decrement.                                      *)
TypeOK ==
    /\ head \in Word /\ head_store \in Word /\ tail \in Word /\ expected \in Word
    /\ notify_waiters = IF cpc \in Waiting THEN 1 ELSE 0
    /\ notify_fd \in BOOLEAN /\ readable \in BOOLEAN /\ producer_done \in BOOLEAN
    /\ timed \in BOOLEAN /\ late \in BOOLEAN /\ got \in BOOLEAN
    /\ ppc \in {"idle", "waiters", "wake", "fd"}
    /\ cpc \in {"loop", "drain", "check", "wait", "done"} \cup Waiting

(* docs/USE_CASES_NOTIFY.md: "a publication racing with entry into the     *)
(* wait cannot leave the consumer asleep on an obsolete sequence".  When   *)
(* the consumer sleeps and head is no longer the value it sleeps on, the   *)
(* producer is still on its way to rb_futex_wake.                          *)
NoLostWake ==
    cpc = "asleep" /\ head # expected => ppc \in {"waiters", "wake"}

(* Every publication is consumed, however its signal raced with the sleep, *)
(* unless the example's loop has ended: the slices of rb_wait and the      *)
(* eventfd's counter make up for a lost wake-up.                           *)
MessageDrained ==
    \A p \in Word :
        Sub(p, tail) < Sub(head_store, tail)
            ~> Sub(p, tail) >= Sub(head_store, tail) \/ cpc = "done"

(* A wait with a timeout returns, signals and spurious slices or not. *)
WaitTimesOut == cpc = "asleep" /\ timed ~> cpc = "loop"

=============================================================================
