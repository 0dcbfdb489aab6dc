---------------------------- MODULE RbFifoProofs ----------------------------
(***************************************************************************)
(* The ring implements BoundedFifo, for every word size, geometry, mode    *)
(* and set of payloads RbAligned allows; and the per-slot stamps of        *)
(* RB_PER_SLOT_LAP are what the two protocols expect of them.              *)
(***************************************************************************)
EXTENDS RbProofs

(* What the consumer has copied is what its slot holds: nobody writes a    *)
(* slot between rb_consume and rb_release.                                 *)
OutInv ==
    /\ cpc \in {"holding", "read"} =>
        /\ out.len = slot[consumer_slot].len
        /\ out.truncated = slot[consumer_slot].truncated
    /\ cpc = "read" => out.data = slot[consumer_slot].data

FifoInv == RingInv /\ OutInv

-----------------------------------------------------------------------------
(* Sequences given as functions.                                           *)

LEMMA AppendFun ==
  ASSUME NEW S, NEW n \in Nat, NEW s \in [1 .. n -> S], NEW r \in [1 .. n + 1 -> S],
         \A i \in 1 .. n : r[i] = s[i]
  PROVE  r = Append(s, r[n + 1]) /\ Len(s) = n
<1>1. s \in Seq(S) /\ Len(s) = n
  OBVIOUS
<1> QED BY <1>1

LEMMA TailFun ==
  ASSUME NEW S, NEW n \in Nat \ {0}, NEW s \in [1 .. n -> S], NEW r \in [1 .. n - 1 -> S],
         \A i \in 1 .. n - 1 : r[i] = s[i + 1]
  PROVE  r = Tail(s) /\ s # <<>> /\ Head(s) = s[1]
<1>1. s \in Seq(S) /\ Len(s) = n
  OBVIOUS
<1> QED BY <1>1

(* The positions of the messages in flight, oldest first. *)
LEMMA Positions ==
  ASSUME NEW t \in Word, NEW h \in Word, NEW i \in 1 .. Sub(h, t)
  PROVE  /\ Add(t, i - 1) \in Word
         /\ Sub(Add(t, i - 1), t) < Sub(h, t)
         /\ i # Sub(h, t) => Add(Inc(t), i - 1) = Add(t, i)
BY WordAssumption DEF Word, Add, Sub, Inc

(* The oldest one is tail's; the one after the youngest will be head's. *)
LEMMA Ends ==
  ASSUME NEW t \in Word, NEW h \in Word
  PROVE  Add(t, 0) = t /\ Add(t, Sub(h, t)) = h
BY WordAssumption DEF Word, Add, Sub

(* The queue, slot by slot. *)
QueueFacts ==
    /\ Sub(head, tail) \in Nat
    /\ Queue \in [1 .. Sub(head, tail) -> Message]
    /\ \A i \in 1 .. Sub(head, tail) :
           Queue[i] = slot[slot_index_for(Add(tail, i - 1))]

LEMMA QueueIs == RingInv => QueueFacts
<1> SUFFICES ASSUME RingInv PROVE QueueFacts
  OBVIOUS
<1>1. head \in Word /\ tail \in Word /\ slot \in [Slots -> Message]
  BY DEF RingInv, TypeOK
<1>2. Sub(head, tail) \in Nat
  BY <1>1, WordOps DEF Word
<1>3. ASSUME NEW i \in 1 .. Sub(head, tail)
      PROVE  /\ EntryAt(Add(tail, i - 1)) = slot_index_for(Add(tail, i - 1))
             /\ slot_index_for(Add(tail, i - 1)) \in Slots
  <2>1. Add(tail, i - 1) \in Word /\ InFlight(Add(tail, i - 1))
    BY <1>1, Positions DEF InFlight
  <2> QED BY <2>1, IndexType DEF RingInv, EntriesInv, EntryAt
<1> QED BY <1>1, <1>2, <1>3 DEF Queue, QueueFacts

(* The same, before and after a step. *)
LEMMA QueueIsNext == RingInv' => QueueFacts'
BY QueueIs, PTL

-----------------------------------------------------------------------------
LEMMA FifoInit == Init => FifoInv /\ FIFO!Init
<1> SUFFICES ASSUME Init PROVE FifoInv /\ FIFO!Init
  OBVIOUS
<1>1. RingInv /\ OutInv
  BY RingInit DEF Init, OutInv
<1>2. Sub(head, tail) = 0
  BY DEF Init, Sub
<1>3. Queue = <<>> /\ Held = <<>>
  BY <1>2 DEF Init, Queue, Held
<1> QED BY <1>1, <1>3 DEF FifoInv, FIFO!Init

(* What the producer writes before the head store is in no message. *)
LEMMA PendingIsApart ==
  ASSUME RingInv, ProducerOwns
  PROVE  /\ pending_slot \in Slots
         /\ \A p \in Word : InFlight(p) => slot_index_for(p) # pending_slot
         /\ consumer_active => consumer_slot # pending_slot
<1>1. /\ TypeOK /\ CounterOrder /\ pending_slot = slot_index_for(head)
      /\ Sub(head, cached_tail) < limit
  BY DEF RingInv, ProducerInv
<1>2. pending_slot \in Slots
  BY <1>1, IndexType DEF TypeOK
<1>3. \A p \in Word : InFlight(p) => slot_index_for(p) # pending_slot
  BY <1>1, HeadIsFree
<1> QED BY <1>2, <1>3, RingIsRaceFree DEF SlotRaceFree

(* A step that moves neither counter and writes no slot of a message       *)
(* leaves the queue alone.                                                 *)
LEMMA SameQueue ==
  ASSUME RingInv, RingInv', head' = head, tail' = tail,
         \A p \in Word : InFlight(p) => slot'[slot_index_for(p)] = slot[slot_index_for(p)]
  PROVE  Queue' = Queue
<1> DEFINE n == Sub(head, tail)
<1>1. head \in Word /\ tail \in Word
  BY DEF RingInv, TypeOK
<1>2. n \in Nat /\ Queue \in [1 .. n -> Message] /\ Queue' \in [1 .. n -> Message]
  BY QueueIs, QueueIsNext DEF QueueFacts
<1>3. ASSUME NEW i \in 1 .. n PROVE Queue'[i] = Queue[i]
  <2>1. Add(tail, i - 1) \in Word /\ InFlight(Add(tail, i - 1))
    BY <1>1, Positions DEF InFlight
  <2>2. Queue[i] = slot[slot_index_for(Add(tail, i - 1))]
    BY QueueIs DEF QueueFacts
  <2>3. Queue'[i] = slot'[slot_index_for(Add(tail, i - 1))]
    BY QueueIsNext DEF QueueFacts, slot_index_for
  <2> QED BY <2>1, <2>2, <2>3
<1> QED BY <1>2, <1>3

(* Steps that the queue and the consumer's copy cannot notice. *)
Quiet ==
    /\ UNCHANGED <<head, tail, slot, out, consumer_slot>>
    /\ cpc' = cpc \/ {cpc, cpc'} \cap {"holding", "read"} = {}

LEMMA QuietKeeps ==
  ASSUME FifoInv, RingInv', Quiet
  PROVE  OutInv' /\ UNCHANGED <<Queue, Held>>
<1>1. OutInv'
  BY DEF FifoInv, OutInv, Quiet
<1>2. Queue' = Queue
  BY SameQueue DEF FifoInv, Quiet
<1>3. Held' = Held
  BY DEF Held, Quiet
<1> QED BY <1>1, <1>2, <1>3

(* The producer writes its pending slot and nothing else. *)
LEMMA PendingKeeps ==
  ASSUME FifoInv, RingInv', ProducerOwns, UNCHANGED <<head, tail, consumer>>,
         slot' \in [Slots -> Message],
         \A i \in Slots : i # pending_slot => slot'[i] = slot[i]
  PROVE  OutInv' /\ UNCHANGED <<Queue, Held>>
<1> USE DEF consumer, taken
<1>1. RingInv /\ OutInv
  BY DEF FifoInv
<1>2. ASSUME NEW p \in Word, InFlight(p)
      PROVE  slot'[slot_index_for(p)] = slot[slot_index_for(p)]
  BY <1>1, <1>2, PendingIsApart, IndexType
<1>3. Queue' = Queue
  BY <1>1, <1>2, SameQueue
<1>4. Held' = Held
  BY DEF Held
<1>5. cpc \in {"holding", "read"} => slot'[consumer_slot] = slot[consumer_slot]
  <2>1. cpc \in {"holding", "read"} => consumer_active
    BY <1>1 DEF RingInv, ConsumerInv
  <2>2. consumer_slot \in Slots
    BY <1>1 DEF RingInv, TypeOK
  <2> QED BY <1>1, <2>1, <2>2, PendingIsApart
<1>6. OutInv'
  BY <1>1, <1>5 DEF OutInv
<1> QED BY <1>3, <1>4, <1>6

(* The head store publishes one message, and there is room for it. *)
LEMMA HeadStorePublishes ==
  ASSUME FifoInv, RingInv', PublishHead
  PROVE  OutInv' /\ \E m \in Message : FIFO!Publish(m)
<1> USE DEF storage, producer, consumer, pending, taken, marks
<1> DEFINE n == Sub(head, tail)
<1>0. RingInv /\ OutInv /\ TypeOK /\ CounterOrder
  BY DEF FifoInv, RingInv
<1>1. head \in Word /\ tail \in Word /\ cached_tail \in Word /\ cached_head \in Word
  BY <1>0 DEF TypeOK
<1>2. Sub(head, cached_tail) < limit
  BY <1>0 DEF PublishHead, RingInv, ProducerInv, ProducerOwns
<1>3. n \in Nat /\ n < limit /\ n < W - 1
  BY <1>0, <1>1, <1>2, Limits DEF CounterOrder, Ordered, Word, Sub
<1>4. head' = Inc(head) /\ UNCHANGED <<tail, slot, out, consumer_slot, cpc>>
  BY DEF PublishHead
<1>5. Sub(head', tail') = n + 1
  BY <1>1, <1>3, <1>4, AheadAdvances
<1>6. Queue \in [1 .. n -> Message] /\ Queue' \in [1 .. n + 1 -> Message]
  BY <1>0, <1>5, QueueIs, QueueIsNext DEF QueueFacts
<1>7. ASSUME NEW i \in 1 .. n PROVE Queue'[i] = Queue[i]
  <2>1. i \in 1 .. n + 1
    BY <1>3
  <2>2. Queue[i] = slot[slot_index_for(Add(tail, i - 1))]
    BY <1>0, QueueIs DEF QueueFacts
  <2>3. Queue'[i] = slot'[slot_index_for(Add(tail', i - 1))]
    BY <1>5, <2>1, QueueIsNext DEF QueueFacts, slot_index_for
  <2> QED BY <1>4, <2>2, <2>3
<1> HIDE DEF n
<1>8. Queue' = Append(Queue, Queue'[n + 1]) /\ Len(Queue) = n
  BY <1>3, <1>6, <1>7, AppendFun
<1>9. Queue'[n + 1] \in Message
  BY <1>3, <1>6
<1>10. Held' = Held
  BY <1>4 DEF Held
<1>11. OutInv'
  BY <1>0, <1>4 DEF OutInv
<1> QED BY <1>3, <1>8, <1>9, <1>10, <1>11 DEF FIFO!Publish

(* What the consumer holds is the oldest message. *)
LEMMA HoldsOldest ==
  ASSUME RingInv, consumer_active
  PROVE  /\ Sub(head, tail) \in Nat \ {0}
         /\ Queue # <<>> /\ Head(Queue) = slot[consumer_slot]
<1> DEFINE n == Sub(head, tail)
<1>1. head \in Word /\ tail \in Word /\ cached_head \in Word
  BY DEF RingInv, TypeOK
<1>2. n \in Nat \ {0}
  BY <1>1, Limits DEF RingInv, ConsumerInv, CounterOrder, Ordered, Word, Sub
<1>3. Queue \in [1 .. n -> Message] /\ Queue[1] = slot[slot_index_for(tail)]
  <2>1. 1 \in 1 .. n /\ 1 - 1 = 0
    BY <1>2
  <2> QED BY <1>1, <2>1, QueueIs, Ends DEF QueueFacts
<1>4. slot_index_for(tail) = consumer_slot
  BY DEF RingInv, ConsumerInv
<1> HIDE DEF n
<1>5. Queue \in Seq(Message) /\ Len(Queue) = n
  BY <1>2, <1>3
<1>6. Queue # <<>> /\ Head(Queue) = Queue[1]
  BY <1>2, <1>5
<1> QED BY <1>2, <1>3, <1>4, <1>6 DEF n

(* The tail store releases the oldest message and no other. *)
LEMMA TailStoreReleases ==
  ASSUME FifoInv, RingInv', ReleaseTail
  PROVE  OutInv' /\ FIFO!Release
<1> USE DEF storage, producer, consumer, pending, taken, marks
<1> DEFINE n == Sub(head, tail)
<1>0. RingInv /\ OutInv /\ consumer_active
  BY GeometryAssumption DEF FifoInv, RingInv, ConsumerInv, ReleaseTail
<1>1. head \in Word /\ tail \in Word
  BY <1>0 DEF RingInv, TypeOK
<1>2. n \in Nat \ {0} /\ Queue # <<>>
  BY <1>0, HoldsOldest
<1>3. tail' = Inc(tail) /\ UNCHANGED <<head, slot>> /\ cpc' = "low_d"
  BY DEF ReleaseTail
<1>4. Sub(head', tail') = n - 1
  <2>1. head # tail
    BY <1>1, <1>2, NoDistance
  <2> QED BY <1>1, <1>3, <2>1, BehindAdvances
<1>5. Queue \in [1 .. n -> Message] /\ Queue' \in [1 .. n - 1 -> Message]
  BY <1>0, <1>4, QueueIs, QueueIsNext DEF QueueFacts
<1>6. ASSUME NEW i \in 1 .. n - 1 PROVE Queue'[i] = Queue[i + 1]
  <2>1. i \in 1 .. n /\ i # n /\ i + 1 \in 1 .. n /\ (i + 1) - 1 = i
    BY <1>2
  <2>2. Queue[i + 1] = slot[slot_index_for(Add(tail, i))]
    BY <1>0, <2>1, QueueIs DEF QueueFacts
  <2>3. Queue'[i] = slot'[slot_index_for(Add(tail', i - 1))]
    BY <1>4, QueueIsNext DEF QueueFacts, slot_index_for
  <2>4. Add(Inc(tail), i - 1) = Add(tail, i)
    BY <1>1, <2>1, Positions
  <2> QED BY <1>3, <2>2, <2>3, <2>4
<1> HIDE DEF n
<1>7. Queue' = Tail(Queue)
  BY <1>2, <1>5, <1>6, TailFun
<1>8. Held' = <<>> /\ OutInv'
  BY <1>3 DEF Held, OutInv
<1> QED BY <1>2, <1>7, <1>8 DEF FIFO!Release

(* rb_consume copies the header of the slot it takes. *)
LEMMA ConsumeCopies ==
  ASSUME FifoInv, RingInv', ConsumeSlot
  PROVE  OutInv' /\ UNCHANGED <<Queue, Held>>
<1> USE DEF storage, producer, consumer, pending, taken, marks
<1>1. UNCHANGED <<head, tail, slot>> /\ cpc = "found" /\ cpc' \in {"idle", "holding"}
  BY DEF ConsumeSlot
<1>2. Queue' = Queue
  BY <1>1, SameQueue DEF FifoInv
<1>3. Held' = Held
  BY <1>1 DEF Held
<1>4. OutInv'
  <2>1. CASE cpc' = "idle"
    BY <2>1 DEF OutInv
  <2>2. CASE cpc' = "holding"
    <3>1. consumer_slot' = EntryAt(tail)
          /\ out' = [out EXCEPT !.len = slot[EntryAt(tail)].len,
                                !.truncated = slot[EntryAt(tail)].truncated]
      BY <2>2 DEF ConsumeSlot
    <3>2. out \in Message
      BY DEF FifoInv, RingInv, TypeOK
    <3>3. out'.len = slot[EntryAt(tail)].len
          /\ out'.truncated = slot[EntryAt(tail)].truncated
      BY <3>1, <3>2 DEF Message
    <3> QED BY <1>1, <2>2, <3>1, <3>3 DEF OutInv
  <2> QED BY <1>1, <2>1, <2>2
<1> QED BY <1>2, <1>3, <1>4

(* The caller's read completes the copy of the oldest message. *)
LEMMA ReadTakesOldest ==
  ASSUME FifoInv, RingInv', ReadPayload
  PROVE  OutInv' /\ FIFO!Read
<1> USE DEF storage, producer, consumer, pending, taken, marks
<1>0. RingInv /\ OutInv /\ consumer_active
  BY DEF FifoInv, RingInv, ConsumerInv, ReadPayload
<1>1. /\ UNCHANGED <<head, tail, slot, consumer_slot>> /\ cpc = "holding" /\ cpc' = "read"
      /\ out' = [out EXCEPT !.data = slot[consumer_slot].data]
  BY DEF ReadPayload
<1>2. out \in Message /\ slot[consumer_slot] \in Message
  BY <1>0 DEF RingInv, TypeOK
<1>3. /\ out'.data = slot[consumer_slot].data
      /\ out'.len = slot[consumer_slot].len
      /\ out'.truncated = slot[consumer_slot].truncated
      /\ out' \in Message
  BY <1>0, <1>1, <1>2 DEF OutInv, Message
<1>4. out' = slot[consumer_slot]
  BY <1>2, <1>3 DEF Message
<1>5. Queue' = Queue
  BY <1>0, <1>1, SameQueue
<1>6. Queue # <<>> /\ Head(Queue) = slot[consumer_slot]
  BY <1>0, HoldsOldest
<1>7. Held = <<>> /\ Held' = <<out'>>
  BY <1>1 DEF Held
<1>8. OutInv'
  BY <1>1, <1>3 DEF OutInv
<1> QED BY <1>4, <1>5, <1>6, <1>7, <1>8 DEF FIFO!Read

(* The recycle stamp is not seen, but that the caller has put the message  *)
(* down if it had read it.                                                 *)
LEMMA StampPutsDown ==
  ASSUME FifoInv, RingInv', ReleaseStamp
  PROVE  OutInv' /\ (FIFO!PutDown \/ UNCHANGED <<Queue, Held>>)
<1> USE DEF storage, producer, consumer, pending, taken, marks
<1>1. /\ UNCHANGED <<head, tail, slot>> /\ cpc \in {"holding", "read"}
      /\ cpc' = "stamped"
  BY DEF ReleaseStamp
<1>2. Queue' = Queue
  BY <1>1, SameQueue DEF FifoInv
<1>3. Held' = <<>> /\ OutInv'
  BY <1>1 DEF Held, OutInv
<1>4. CASE cpc = "holding"
  BY <1>2, <1>3, <1>4 DEF Held
<1>5. CASE cpc = "read"
  <2>1. Held # <<>>
    BY <1>5 DEF Held
  <2> QED BY <1>2, <1>3, <2>1 DEF FIFO!PutDown
<1> QED BY <1>1, <1>4, <1>5

LEMMA FifoNext == FifoInv /\ [Next]_vars => FifoInv' /\ [FIFO!Next]_<<Queue, Held>>
<1> SUFFICES ASSUME FifoInv, [Next]_vars
             PROVE  FifoInv' /\ [FIFO!Next]_<<Queue, Held>>
  OBVIOUS
<1> USE DEF vars, storage, producer, consumer, pending, taken, marks
<1>0. RingInv' /\ RingInv
  BY RingNext DEF FifoInv
<1>t. slot \in [Slots -> Message] /\ slot' \in [Slots -> Message]
  BY <1>0 DEF RingInv, TypeOK
<1> SUFFICES OutInv' /\ [FIFO!Next]_<<Queue, Held>>
  BY <1>0 DEF FifoInv
<1>1. ASSUME NEW wanted \in WantedLens, rb_acquire(wanted)
      PROVE  OutInv' /\ [FIFO!Next]_<<Queue, Held>>
  <2>1. Quiet
    BY <1>1 DEF rb_acquire, Quiet
  <2> QED BY <1>0, <2>1, QuietKeeps
<1>2. ASSUME NEW d \in Data, WritePayload(d)
      PROVE  OutInv' /\ [FIFO!Next]_<<Queue, Held>>
  <2>1. /\ ProducerOwns /\ UNCHANGED <<head, tail, consumer>>
        /\ \A i \in Slots : i # pending_slot => slot'[i] = slot[i]
    BY <1>2, <1>t DEF WritePayload, ProducerOwns
  <2> QED BY <1>0, <1>t, <2>1, PendingKeeps
<1>3. ASSUME NEW written \in WrittenLens, NEW truncated \in BOOLEAN,
             PublishHeader(written, truncated)
      PROVE  OutInv' /\ [FIFO!Next]_<<Queue, Held>>
  <2>1. /\ ProducerOwns /\ UNCHANGED <<head, tail, consumer>>
        /\ \A i \in Slots : i # pending_slot => slot'[i] = slot[i]
    BY <1>3, <1>t DEF PublishHeader, ProducerOwns
  <2> QED BY <1>0, <1>t, <2>1, PendingKeeps
<1>4. CASE rb_abort \/ PublishEntry \/ PublishCount \/ PublishLatch \/ OnFull
  <2>1. Quiet
    BY <1>4 DEF rb_abort, PublishEntry, PublishCount, PublishLatch, OnFull, Quiet
  <2> QED BY <1>0, <2>1, QuietKeeps
<1>5. CASE PublishHead
  BY <1>0, <1>5, HeadStorePublishes DEF FIFO!Next
<1>6. CASE ConsumeHead \/ ReleaseLowD \/ OnLowD \/ ReleaseLowE
  <2>1. Quiet
    BY <1>6 DEF ConsumeHead, ReleaseLowD, OnLowD, ReleaseLowE, Quiet
  <2> QED BY <1>0, <2>1, QuietKeeps
<1>7. CASE ConsumeSlot
  BY <1>0, <1>7, ConsumeCopies
<1>8. CASE ReadPayload
  BY <1>0, <1>8, ReadTakesOldest DEF FIFO!Next
<1>9. CASE ReleaseStamp
  BY <1>0, <1>9, StampPutsDown DEF FIFO!Next
<1>10. CASE ReleaseTail
  BY <1>0, <1>10, TailStoreReleases DEF FIFO!Next
<1>11. CASE UNCHANGED vars
  <2>1. Quiet
    BY <1>11 DEF Quiet
  <2> QED BY <1>0, <2>1, QuietKeeps
<1> QED BY <1>1, <1>2, <1>3, <1>4, <1>5, <1>6, <1>7, <1>8, <1>9, <1>10, <1>11
        DEF Next, Producer, Consumer

(* The ring is a bounded FIFO, in both modes and for every geometry whose  *)
(* slots divide the range of the counters: the head store of rb_publish_ex *)
(* appends the message, the tail store of rb_release removes the oldest,   *)
(* and what the consumer reads in between is that one, unchanged.          *)
THEOREM RingIsFifo == Spec => ImplementsFifo
BY FifoInit, FifoNext, PTL DEF Spec, ImplementsFifo, FIFO!Spec

-----------------------------------------------------------------------------
(* The stamp position p's slot should carry while p is within a lap of     *)
(* tail.                                                                   *)
Expected(p) ==
    IF p = tail /\ cpc = "stamped" THEN NextLap
    ELSE IF InFlight(p) \/ (p = head /\ ppc = "ready") THEN Inc(p) ELSE p

LapInv == RingInv /\ LapStamps

-----------------------------------------------------------------------------
(* Positions of one lap use different slots. *)
LEMMA LapIsInjective ==
  ASSUME NEW t \in Word, NEW p \in Word, NEW r \in Word, p # r,
         Sub(p, t) < slots, Sub(r, t) < slots
  PROVE  slot_index_for(p) # slot_index_for(r)
<1>1. SUFFICES ASSUME p % slots = r % slots PROVE FALSE
  BY DEF slot_index_for
<1>2. Sub(p, r) >= slots /\ Sub(r, p) >= slots
  BY <1>1, SameIndexIsFar, SlotsDivideWord, Limits
<1> QED BY <1>2, Limits DEF Sub, Word

(* A remainder is determined by what it leaves. *)
LEMMA Remainder ==
  ASSUME NEW x \in Nat, NEW n \in Nat \ {0}, NEW a \in Int, NEW c \in 0 .. n - 1,
         x = n * a + c
  PROVE  x % n = c
<1> DEFINE b == x \div n
           d == x % n
<1>1. b \in Nat /\ d \in 0 .. n - 1 /\ x = n * b + d
  BY DivMod
<1> HIDE DEF b, d
<1>2. n * a \in Int /\ n * b \in Int
  BY <1>1
<1>3. ~ n * a > n * b
  BY <1>1, <1>2, Multiples
<1>4. ~ n * b > n * a
  BY <1>1, <1>2, Multiples
<1>5. d = c
  BY <1>1, <1>2, <1>3, <1>4
<1> QED BY <1>5 DEF d

(* A position and the one a lap later use the same slot. *)
LEMMA NextLapSameSlot ==
  ASSUME NEW t \in Word
  PROVE  slot_index_for(Add(t, slots)) = slot_index_for(t)
<1> DEFINE a == t \div slots
           c == t % slots
           k == W \div slots
<1>0. t \in Nat /\ W \in Nat /\ slots \in Nat \ {0} /\ slots < W
  BY Limits DEF Word
<1>1. a \in Nat /\ c \in 0 .. slots - 1 /\ t = slots * a + c
  BY <1>0, DivMod
<1>2. k \in Nat /\ W = slots * k
  <2>1. k \in Nat /\ W % slots \in 0 .. slots - 1 /\ W = slots * k + (W % slots)
    BY <1>0, DivMod
  <2> QED BY <2>1, <1>0, SlotsDivideWord
<1> HIDE DEF a, c, k
<1>3. slots * (a + 1) = slots * a + slots /\ slots * (a + 1 - k) = slots * a + slots - slots * k
  BY <1>0, <1>1, <1>2
<1>4. CASE t + slots < W
  <2>1. t + slots = slots * (a + 1) + c
    BY <1>0, <1>1, <1>3
  <2>2. (t + slots) % slots = c
    BY <1>0, <1>1, <2>1, Remainder
  <2> QED BY <1>4, <2>2 DEF Add, slot_index_for, c
<1>5. CASE ~ t + slots < W
  <2>1. t + slots - W \in Nat /\ t + slots - W = slots * (a + 1 - k) + c
    BY <1>0, <1>1, <1>2, <1>3, <1>5
  <2>2. a + 1 - k \in Int
    BY <1>1, <1>2
  <2>3. (t + slots - W) % slots = c
    BY <1>0, <1>1, <2>1, <2>2, Remainder
  <2> QED BY <1>5, <2>3 DEF Add, slot_index_for, c
<1> QED BY <1>4, <1>5

(* The lap that begins one position later. *)
LEMMA LapMoves ==
  ASSUME NEW t \in Word, NEW p \in Word, Sub(p, Inc(t)) < slots
  PROVE  p = Add(t, slots) \/ (p # t /\ Sub(p, t) < slots)
BY Limits DEF Word, Add, Sub, Inc

LEMMA LapInit == Init => LapInv
<1> SUFFICES ASSUME Init PROVE LapInv
  OBVIOUS
<1>1. ASSUME NEW p \in Word, Sub(p, tail) < slots
      PROVE  stamp[slot_index_for(p)] = Expected(p)
  <2>1. p \in Slots /\ p \in Nat
    BY <1>1, Limits DEF Init, Sub, Word, Slots
  <2>2. slot_index_for(p) = p
    BY <2>1, Limits DEF slot_index_for, Slots
  <2>3. Expected(p) = p
    BY Limits DEF Init, Expected, InFlight, Sub, Word
  <2> QED BY <2>1, <2>2, <2>3 DEF Init
<1> QED BY <1>1, RingInit DEF LapInv, LapStamps, Expected

-----------------------------------------------------------------------------
(* Steps that move no counter, write no stamp and neither begin nor end    *)
(* the moment between a stamp and its counter's store.                     *)
Calm ==
    /\ UNCHANGED <<head, tail, stamp>>
    /\ ppc' = "ready" <=> ppc = "ready"
    /\ cpc' = "stamped" <=> cpc = "stamped"

LEMMA CalmKeeps ==
  ASSUME LapStamps, Calm
  PROVE  LapStamps'
BY DEF LapStamps, Calm, InFlight, NextLap, slot_index_for

(* rb_publish_ex stamps the pending slot, which is head's. *)
LEMMA EntryStamps ==
  ASSUME LapInv, RB_PER_SLOT_LAP, PublishEntry
  PROVE  LapStamps'
<1> USE DEF storage, producer, consumer, pending, taken, marks
<1>1. head \in Word /\ tail \in Word /\ cached_tail \in Word /\ stamp \in [Slots -> Word]
  BY DEF LapInv, RingInv, TypeOK
<1>2. pending_slot = slot_index_for(head) /\ Sub(head, cached_tail) < limit
  BY DEF LapInv, RingInv, ProducerInv, ProducerOwns, PublishEntry
<1>3. Sub(head, tail) < slots
  <2>1. Ordered(cached_tail, tail, head)
    BY DEF LapInv, RingInv, CounterOrder
  <2> QED BY <1>1, <1>2, <2>1, Limits DEF Ordered, Sub, Word
<1>4. /\ stamp' = [stamp EXCEPT ![slot_index_for(head)] = Inc(head)]
      /\ UNCHANGED <<head, tail, cpc>> /\ ppc = "header" /\ ppc' = "ready"
  BY <1>2 DEF PublishEntry
<1>5. cpc = "stamped" => head # tail
  <2>1. Ordered(tail, cached_head, head) /\ cached_head \in Word
    BY DEF LapInv, RingInv, CounterOrder, TypeOK
  <2>2. cpc = "stamped" => cached_head # tail
    BY DEF LapInv, RingInv, ConsumerInv
  <2> QED BY <1>1, <2>1, <2>2, Limits DEF Ordered, Sub, Word
<1>6. ASSUME NEW p \in Word, Sub(p, tail) < slots
      PROVE  stamp'[slot_index_for(p)] = Expected(p)'
  <2>1. slot_index_for(p) \in Slots /\ slot_index_for(head) \in Slots
    BY <1>1, IndexType
  <2>2. CASE p = head
    BY <1>1, <1>4, <1>5, <2>1, <2>2 DEF Expected
  <2>3. CASE p # head
    <3>1. slot_index_for(p) # slot_index_for(head)
      BY <1>1, <1>3, <1>6, <2>3, LapIsInjective
    <3>2. stamp'[slot_index_for(p)] = stamp[slot_index_for(p)]
      BY <1>1, <1>4, <2>1, <3>1
    <3>3. stamp[slot_index_for(p)] = Expected(p)
      BY <1>6 DEF LapInv, LapStamps, Expected
    <3>4. Expected(p)' = Expected(p)
      BY <1>4, <2>3 DEF Expected, InFlight, NextLap
    <3> QED BY <3>2, <3>3, <3>4
  <2> QED BY <2>2, <2>3
<1> QED BY <1>4, <1>6 DEF LapStamps, Expected, slot_index_for

(* The head store turns the stamped slot into a message. *)
LEMMA HeadStoreKeeps ==
  ASSUME LapInv, RB_PER_SLOT_LAP, PublishHead
  PROVE  LapStamps'
<1> USE DEF storage, producer, consumer, pending, taken, marks
<1>1. head \in Word /\ tail \in Word /\ cached_tail \in Word
  BY DEF LapInv, RingInv, TypeOK
<1>2. Sub(head, cached_tail) < limit
  BY DEF LapInv, RingInv, ProducerInv, ProducerOwns, PublishHead
<1>3. Sub(head, tail) < W - 1
  BY <1>1, <1>2, Limits DEF LapInv, RingInv, CounterOrder, Ordered, Sub, Word
<1>4. /\ head' = Inc(head) /\ UNCHANGED <<tail, stamp, cpc>>
      /\ ppc = "ready" /\ ppc' = "published"
  BY DEF PublishHead
<1>5. Sub(Inc(head), tail) = Sub(head, tail) + 1
  BY <1>1, <1>3, AheadAdvances
<1>6. ASSUME NEW p \in Word PROVE InFlight(p)' <=> InFlight(p) \/ p = head
  <2>1. Sub(p, tail) \in Nat /\ Sub(head, tail) \in Nat
    BY <1>1, WordOps DEF Word
  <2>2. Sub(p, tail) = Sub(head, tail) <=> p = head
    BY <1>1, Limits DEF Sub, Word
  <2> QED BY <1>4, <1>5, <2>1, <2>2 DEF InFlight
<1>7. ASSUME NEW p \in Word PROVE Expected(p)' = Expected(p)
  BY <1>4, <1>6 DEF Expected, NextLap
<1> QED BY <1>4, <1>7 DEF LapInv, LapStamps, Expected, slot_index_for

(* rb_release stamps the consumer's slot, which is tail's. *)
LEMMA RecycleStamps ==
  ASSUME LapInv, RB_PER_SLOT_LAP, ReleaseStamp
  PROVE  LapStamps'
<1> USE DEF storage, producer, consumer, pending, taken, marks
<1>1. head \in Word /\ tail \in Word /\ stamp \in [Slots -> Word]
  BY DEF LapInv, RingInv, TypeOK
<1>2. consumer_slot = slot_index_for(tail)
  BY DEF LapInv, RingInv, ConsumerInv, ReleaseStamp
<1>3. /\ stamp' = [stamp EXCEPT ![slot_index_for(tail)] = NextLap]
      /\ UNCHANGED <<head, tail, ppc>> /\ cpc # "stamped" /\ cpc' = "stamped"
  BY <1>2 DEF ReleaseStamp
<1>4. Sub(tail, tail) < slots
  BY <1>1, Limits DEF Sub, Word
<1>5. ASSUME NEW p \in Word, Sub(p, tail) < slots
      PROVE  stamp'[slot_index_for(p)] = Expected(p)'
  <2>1. slot_index_for(p) \in Slots /\ slot_index_for(tail) \in Slots
    BY <1>1, IndexType
  <2>2. CASE p = tail
    BY <1>1, <1>3, <2>1, <2>2 DEF Expected, NextLap
  <2>3. CASE p # tail
    <3>1. slot_index_for(p) # slot_index_for(tail)
      BY <1>1, <1>4, <1>5, <2>3, LapIsInjective
    <3>2. stamp'[slot_index_for(p)] = stamp[slot_index_for(p)]
      BY <1>1, <1>3, <2>1, <3>1
    <3>3. stamp[slot_index_for(p)] = Expected(p)
      BY <1>5 DEF LapInv, LapStamps, Expected
    <3>4. Expected(p)' = Expected(p)
      BY <1>3, <2>3 DEF Expected, InFlight
    <3> QED BY <3>2, <3>3, <3>4
  <2> QED BY <2>2, <2>3
<1> QED BY <1>3, <1>5 DEF LapStamps, Expected, slot_index_for

(* The tail store begins the next lap with the slot just stamped. *)
LEMMA TailStoreKeeps ==
  ASSUME LapInv, RB_PER_SLOT_LAP, ReleaseTail
  PROVE  LapStamps'
<1> USE DEF storage, producer, consumer, pending, taken, marks
<1>1. /\ head \in Word /\ tail \in Word /\ cached_tail \in Word /\ cached_head \in Word
      /\ Ordered(cached_tail, tail, head) /\ Ordered(tail, cached_head, head)
      /\ Sub(head, cached_tail) <= limit
  BY DEF LapInv, RingInv, TypeOK, CounterOrder
<1>2. /\ tail' = Inc(tail) /\ UNCHANGED <<head, stamp, ppc>>
      /\ cpc = "stamped" /\ cpc' = "low_d"
  BY DEF ReleaseTail
<1>3. head # tail
  <2>1. cached_head # tail
    BY <1>2 DEF LapInv, RingInv, ConsumerInv
  <2> QED BY <1>1, <2>1, Limits DEF Ordered, Sub, Word
<1>4. Sub(head, tail) <= slots /\ (ppc = "ready" => Sub(head, tail) < slots)
  <2>1. ppc = "ready" => Sub(head, cached_tail) < limit
    BY DEF LapInv, RingInv, ProducerInv, ProducerOwns
  <2> QED BY <1>1, <2>1, Limits DEF Ordered, Sub, Word
<1>5. ASSUME NEW p \in Word, Sub(p, Inc(tail)) < slots
      PROVE  stamp[slot_index_for(p)] = Expected(p)'
  <2>1. CASE p = Add(tail, slots)
    <3>1. slot_index_for(p) = slot_index_for(tail)
      BY <1>1, <2>1, NextLapSameSlot
    <3>2. stamp[slot_index_for(tail)] = Add(tail, slots)
      <4>1. Sub(tail, tail) < slots
        BY <1>1, Limits DEF Sub, Word
      <4> QED BY <1>1, <1>2, <4>1 DEF LapInv, LapStamps, NextLap
    <3>3. Sub(p, Inc(tail)) >= Sub(head, Inc(tail))
      BY <1>1, <1>3, <1>4, <2>1, Limits DEF Add, Sub, Inc, Word
    <3>4. ppc = "ready" => p # head
      BY <1>1, <1>4, <2>1, Limits DEF Add, Sub, Word
    <3>5. ~ InFlight(p)'
      <4>1. Sub(p, Inc(tail)) \in Nat /\ Sub(head, Inc(tail)) \in Nat
        BY <1>1, WordOps DEF Word
      <4> QED BY <1>2, <3>3, <4>1 DEF InFlight
    <3> QED BY <1>2, <2>1, <3>1, <3>2, <3>4, <3>5 DEF Expected
  <2>2. CASE p # tail /\ Sub(p, tail) < slots
    <3>1. stamp[slot_index_for(p)] = Expected(p)
      BY <2>2 DEF LapInv, LapStamps, Expected
    <3>2. InFlight(p)' <=> InFlight(p)
      <4>1. Sub(head, Inc(tail)) = Sub(head, tail) - 1 /\ Sub(p, Inc(tail)) = Sub(p, tail) - 1
        BY <1>1, <1>3, <2>2, BehindAdvances
      <4>2. Sub(p, tail) \in Nat /\ Sub(head, tail) \in Nat
        BY <1>1, WordOps DEF Word
      <4> QED BY <1>2, <4>1, <4>2 DEF InFlight
    <3>3. Expected(p)' = Expected(p)
      BY <1>2, <2>2, <3>2 DEF Expected
    <3> QED BY <3>1, <3>3
  <2> QED BY <1>1, <1>5, <2>1, <2>2, LapMoves
<1> QED BY <1>2, <1>5 DEF LapStamps, Expected, slot_index_for

LEMMA LapNext == LapInv /\ [Next]_vars => LapInv'
<1> SUFFICES ASSUME LapInv, [Next]_vars PROVE LapStamps'
  BY RingNext DEF LapInv
<1> SUFFICES ASSUME RB_PER_SLOT_LAP PROVE LapStamps'
  BY DEF LapStamps
<1> USE DEF vars, storage, producer, consumer, pending, taken, marks
<1>0. LapStamps
  BY DEF LapInv
<1>1. ASSUME NEW wanted \in WantedLens, rb_acquire(wanted) PROVE LapStamps'
  <2>1. Calm
    BY <1>1 DEF rb_acquire, Calm
  <2> QED BY <1>0, <2>1, CalmKeeps
<1>2. ASSUME NEW d \in Data, WritePayload(d) PROVE LapStamps'
  BY <1>0, <1>2, CalmKeeps DEF WritePayload, Calm
<1>3. ASSUME NEW written \in WrittenLens, NEW truncated \in BOOLEAN,
             PublishHeader(written, truncated)
      PROVE  LapStamps'
  BY <1>0, <1>3, CalmKeeps DEF PublishHeader, Calm
<1>4. CASE rb_abort \/ PublishCount \/ PublishLatch \/ OnFull
  <2>1. Calm
    BY <1>4 DEF rb_abort, PublishCount, PublishLatch, OnFull, Calm
  <2> QED BY <1>0, <2>1, CalmKeeps
<1>5. CASE PublishEntry
  BY <1>5, EntryStamps
<1>6. CASE PublishHead
  BY <1>6, HeadStoreKeeps
<1>7. CASE ConsumeHead \/ ConsumeSlot \/ ReadPayload
  <2>1. Calm
    BY <1>7 DEF ConsumeHead, ConsumeSlot, ReadPayload, Calm
  <2> QED BY <1>0, <2>1, CalmKeeps
<1>8. CASE ReleaseStamp
  BY <1>8, RecycleStamps
<1>9. CASE ReleaseTail
  BY <1>9, TailStoreKeeps
<1>10. CASE ReleaseLowD \/ OnLowD \/ ReleaseLowE
  <2>1. Calm
    BY <1>10 DEF ReleaseLowD, OnLowD, ReleaseLowE, Calm
  <2> QED BY <1>0, <2>1, CalmKeeps
<1>11. CASE UNCHANGED vars
  BY <1>0, <1>11, CalmKeeps DEF Calm
<1> QED BY <1>1, <1>2, <1>3, <1>4, <1>5, <1>6, <1>7, <1>8, <1>9, <1>10, <1>11
        DEF Next, Producer, Consumer

(* Mode 1: in every state the stamps are what rb_consume and rb_publish_ex *)
(* expect, so the stamp test of rb_consume never turns a message away.     *)
THEOREM StampsAreExact == Spec => []LapStamps
<1>1. LapInv => LapStamps
  BY DEF LapInv
<1> QED BY <1>1, LapInit, LapNext, PTL DEF Spec

-----------------------------------------------------------------------------
(* rb_publish_ex and rb_consume: where slots divides the range of the      *)
(* counters, what docs/TECHNICAL.md says holds in both modes and across    *)
(* every wrap: no slot backs two live entries.  Without that condition it  *)
(* does not hold.                                                          *)
THEOREM LiveSlotsDiffer == Spec => []OneSlotPerMessage
<1>1. RingInv => OneSlotPerMessage
  <2> SUFFICES ASSUME RingInv, NEW p \in Word, NEW r \in Word,
                      InFlight(p), InFlight(r), p # r
               PROVE  EntryAt(p) # EntryAt(r)
    BY DEF OneSlotPerMessage
  <2>1. head \in Word /\ tail \in Word /\ cached_tail \in Word
    BY DEF RingInv, TypeOK
  <2>2. EntryAt(p) = slot_index_for(p) /\ EntryAt(r) = slot_index_for(r)
    BY DEF RingInv, EntriesInv, EntryAt
  <2>3. Sub(p, tail) < slots /\ Sub(r, tail) < slots
    BY <2>1, Limits DEF RingInv, CounterOrder, Ordered, InFlight, Word, Sub
  <2> QED BY <2>1, <2>2, <2>3, LapIsInjective
<1> QED BY <1>1, RingCorrect, PTL

=============================================================================
