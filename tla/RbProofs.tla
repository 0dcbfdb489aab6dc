------------------------------ MODULE RbProofs ------------------------------
(***************************************************************************)
(* Proofs, for every word size and every geometry RbAligned allows, that   *)
(* RingInv is inductive and that the ring is free of data races on slots.  *)
(***************************************************************************)
EXTENDS RbAligned, WordProofs

-----------------------------------------------------------------------------
(* Words and indices.                                                      *)

LEMMA Limits ==
  /\ W \in Nat /\ slots \in Nat \ {0} /\ capacity \in Nat \ {0}
  /\ limit \in Nat \ {0} /\ limit <= slots /\ limit <= capacity
  /\ slots < W /\ limit < W /\ 1 < W
BY WordAssumption, GeometryAssumption

LEMMA AddSlots ==
  ASSUME NEW a \in Word
  PROVE  Add(a, slots) \in Word
BY WordAssumption, GeometryAssumption DEF Word, Add

LEMMA IndexType ==
  ASSUME NEW p \in Word
  PROVE  /\ slot_index_for(p) \in Slots
         /\ p % capacity \in 0 .. capacity - 1
<1>1. p \in Nat /\ slots \in Nat \ {0} /\ capacity \in Nat \ {0}
  BY WordAssumption, GeometryAssumption DEF Word
<1>2. p % slots \in 0 .. slots - 1 /\ p % capacity \in 0 .. capacity - 1
  BY <1>1, DivMod
<1> QED BY <1>2 DEF slot_index_for, Slots

(* What an acquire load returns is between the value seen before and now. *)
LEMMA VisibleIsBetween ==
  ASSUME NEW c \in Word, NEW s \in Word, NEW v \in Visible(c, s)
  PROVE  v \in Word /\ Sub(v, s) <= Sub(c, s)
BY WordAssumption DEF Visible, Word, Sub

-----------------------------------------------------------------------------
(* The type invariant is inductive by itself.                              *)

LEMMA TypeInit == Init => TypeOK
<1> SUFFICES ASSUME Init PROVE TypeOK
  OBVIOUS
<1> USE WordAssumption, GeometryAssumption, MessageAssumption DEF Init, Word, Slots
<1>1. entries \in [0 .. capacity - 1 -> Word]
  OBVIOUS
<1>2. stamp \in [Slots -> Word]
  OBVIOUS
<1>3. out \in Message /\ slot \in [Slots -> Message]
  BY DEF Message
<1>4. pending_slot \in Slots \cup {RB_NO_PENDING} /\ consumer_slot \in Slots
  BY DEF RB_NO_PENDING
<1> QED BY <1>1, <1>2, <1>3, <1>4 DEF TypeOK

LEMMA TypeNext == TypeOK /\ [Next]_vars => TypeOK'
<1> SUFFICES ASSUME TypeOK, [Next]_vars PROVE TypeOK'
  OBVIOUS
<1> USE DEF vars, storage, producer, consumer, pending, taken, marks
<1>0. /\ pending_slot \in Word
      /\ Slots \subseteq Word
  BY WordAssumption, GeometryAssumption DEF TypeOK, Slots, Word, RB_NO_PENDING
<1>1. ASSUME NEW wanted \in WantedLens, rb_acquire(wanted) PROVE TypeOK'
  <2>1. cached_tail' \in Word
    BY <1>1, VisibleIsBetween DEF rb_acquire, TypeOK
  <2>2. slot_index_for(head) \in Slots /\ wanted \in Nat
    BY IndexType, MessageAssumption DEF TypeOK
  <2> QED BY <1>1, <2>1, <2>2 DEF rb_acquire, TypeOK
<1>2. ASSUME NEW d \in Data, WritePayload(d) PROVE TypeOK'
  <2>1. slot' \in [Slots -> Message]
    BY <1>2 DEF WritePayload, TypeOK, Message
  <2> QED BY <1>2, <2>1 DEF WritePayload, TypeOK
<1>3. CASE rb_abort
  BY <1>3 DEF rb_abort, TypeOK
<1>4. ASSUME NEW written \in WrittenLens, NEW truncated \in BOOLEAN,
             PublishHeader(written, truncated)
      PROVE  TypeOK'
  <2>1. Clamp(written) \in 0 .. cap
    BY MessageAssumption DEF Clamp
  <2>2. (truncated \/ written > cap \/ pending_wanted > cap) \in BOOLEAN
    OBVIOUS
  <2>3. slot' \in [Slots -> Message]
    BY <1>4, <2>1, <2>2 DEF PublishHeader, TypeOK, Message
  <2> QED BY <1>4, <2>3 DEF PublishHeader, TypeOK
<1>5. CASE PublishEntry
  <2>1. Inc(head) \in Word
    BY WordOps DEF TypeOK
  <2>2. stamp' \in [Slots -> Word] /\ entries' \in [0 .. capacity - 1 -> Word]
    BY <1>0, <1>5, <2>1 DEF PublishEntry, TypeOK
  <2> QED BY <1>5, <2>2 DEF PublishEntry, TypeOK
<1>6. CASE PublishHead
  BY <1>6, WordOps DEF PublishHead, TypeOK
<1>7. CASE PublishCount
  <2>1. PICK t \in Visible(tail, cached_tail) :
          /\ cached_tail' = t
          /\ high_water' = IF Sub(head, t) > high_water THEN Sub(head, t) ELSE high_water
          /\ ppc' = IF IsFull(Sub(head, t)) THEN "full" ELSE "idle"
    BY <1>7 DEF PublishCount
  <2>2. t \in Word /\ Sub(head, t) \in Word
    BY VisibleIsBetween, WordOps DEF TypeOK
  <2> QED BY <1>7, <2>1, <2>2 DEF PublishCount, TypeOK
<1>8. CASE PublishLatch
  BY <1>8 DEF PublishLatch, TypeOK
<1>9. CASE OnFull
  BY <1>9 DEF OnFull, TypeOK
<1>10. CASE ConsumeHead
  <2>1. cached_head' \in Word
    BY <1>10, VisibleIsBetween DEF ConsumeHead, HeadSeen, TypeOK
  <2> QED BY <1>10, <2>1 DEF ConsumeHead, TypeOK
<1>11. CASE ConsumeSlot
  <2>1. cached_head' \in Word
    BY <1>11, VisibleIsBetween DEF ConsumeSlot, TypeOK
  <2>2. EntryAt(tail) \in Word
    BY <1>0, IndexType DEF EntryAt, TypeOK
  <2>3. EntryAt(tail) < slots => EntryAt(tail) \in Slots
    BY <2>2, GeometryAssumption DEF Slots, Word
  <2>4. CASE cpc' = "idle" /\ UNCHANGED taken
    BY <1>11, <2>1, <2>4 DEF ConsumeSlot, TypeOK
  <2>5. CASE ~ (EntryAt(tail) >= slots) /\ consumer_active' = TRUE
             /\ consumer_slot' = EntryAt(tail) /\ cpc' = "holding"
             /\ out' = [out EXCEPT !.len = slot[EntryAt(tail)].len,
                                   !.truncated = slot[EntryAt(tail)].truncated]
    <3>1. EntryAt(tail) \in Slots
      BY <2>2, <2>3, <2>5, GeometryAssumption DEF Word
    <3>2. slot[EntryAt(tail)] \in Message
      BY <3>1 DEF TypeOK
    <3>3. out' \in Message
      BY <2>5, <3>2 DEF TypeOK, Message
    <3> QED BY <1>11, <2>1, <2>5, <3>1, <3>3 DEF ConsumeSlot, TypeOK
  <2> QED BY <1>11, <2>4, <2>5 DEF ConsumeSlot
<1>12. CASE ReadPayload
  <2>1. out' \in Message
    BY <1>12 DEF ReadPayload, TypeOK, Message
  <2> QED BY <1>12, <2>1 DEF ReadPayload, TypeOK
<1>13. CASE ReleaseStamp
  <2>1. stamp' \in [Slots -> Word]
    BY <1>13, AddSlots DEF ReleaseStamp, NextLap, TypeOK
  <2> QED BY <1>13, <2>1 DEF ReleaseStamp, TypeOK
<1>14. CASE ReleaseTail
  BY <1>14, WordOps DEF ReleaseTail, TypeOK
<1>15. CASE ReleaseLowD
  BY <1>15 DEF ReleaseLowD, TypeOK
<1>16. CASE OnLowD
  BY <1>16 DEF OnLowD, TypeOK
<1>17. CASE ReleaseLowE
  BY <1>17 DEF ReleaseLowE, TypeOK
<1>18. CASE UNCHANGED vars
  BY <1>18 DEF TypeOK
<1> QED
  BY <1>1, <1>2, <1>3, <1>4, <1>5, <1>6, <1>7, <1>8, <1>9, <1>10, <1>11, <1>12,
     <1>13, <1>14, <1>15, <1>16, <1>17, <1>18 DEF Next, Producer, Consumer

(* Every field keeps to its type, whatever the interleaving. *)
THEOREM TypeCorrect == Spec => []TypeOK
BY TypeInit, TypeNext, PTL DEF Spec

-----------------------------------------------------------------------------
(* The order of the counters around the ring, one lemma per way to move.   *)

(* A load by the side that is behind: cached_tail catches up with tail. *)
LEMMA LoadBehind ==
  ASSUME NEW ct \in Word, NEW t \in Word, NEW h \in Word, NEW v \in Word,
         Ordered(ct, t, h), Sub(v, ct) <= Sub(t, ct)
  PROVE  Ordered(v, t, h) /\ Sub(h, v) <= Sub(h, ct)
BY WordAssumption DEF Ordered, Word, Sub

(* A load by the side that is ahead: cached_head catches up with head. *)
LEMMA LoadAhead ==
  ASSUME NEW t \in Word, NEW ch \in Word, NEW h \in Word, NEW v \in Word,
         Ordered(t, ch, h), Sub(v, ch) <= Sub(h, ch)
  PROVE  Ordered(t, v, h) /\ (ch # t => v # t)
BY WordAssumption DEF Ordered, Word, Sub

(* The head store: there is room before head meets cached_tail. *)
LEMMA AdvanceHead ==
  ASSUME NEW ct \in Word, NEW t \in Word, NEW ch \in Word, NEW h \in Word,
         Ordered(ct, t, h), Ordered(t, ch, h), Sub(h, ct) < W - 1
  PROVE  /\ Ordered(ct, t, Inc(h)) /\ Ordered(t, ch, Inc(h))
         /\ Sub(Inc(h), ct) = Sub(h, ct) + 1
         /\ Sub(Inc(h), t) = Sub(h, t) + 1
BY WordAssumption DEF Ordered, Word, Sub, Inc

(* The tail store: there is a message before tail meets cached_head. *)
LEMMA AdvanceTail ==
  ASSUME NEW ct \in Word, NEW t \in Word, NEW ch \in Word, NEW h \in Word,
         Ordered(ct, t, h), Ordered(t, ch, h), ch # t
  PROVE  /\ Ordered(ct, Inc(t), h) /\ Ordered(Inc(t), ch, h)
         /\ Sub(h, Inc(t)) = Sub(h, t) - 1
BY WordAssumption DEF Ordered, Word, Sub, Inc

(* A position in flight stays so when head moves on, was so before tail    *)
(* moved on, and head itself is the only one a head store adds.            *)
LEMMA Window ==
  ASSUME NEW t \in Word, NEW h \in Word, NEW p \in Word
  PROVE  /\ Sub(p, t) < Sub(Inc(h), t) => Sub(p, t) < Sub(h, t) \/ p = h
         /\ h # t /\ Sub(p, Inc(t)) < Sub(h, Inc(t)) => Sub(p, t) < Sub(h, t)
         /\ Sub(p, t) < Sub(h, t) => p # h /\ Sub(h, p) <= Sub(h, t)
BY WordAssumption DEF Word, Sub, Inc

-----------------------------------------------------------------------------
(* RingInv.                                                                *)

LEMMA RingInit == Init => RingInv
<1> SUFFICES ASSUME Init PROVE RingInv
  OBVIOUS
<1>1. TypeOK
  BY TypeInit
<1>2. CounterOrder
  BY WordAssumption, GeometryAssumption DEF Init, CounterOrder, Ordered, Sub
<1>3. ProducerInv /\ ConsumerInv
  BY DEF Init, ProducerInv, ConsumerInv, ProducerOwns
<1>4. EntriesInv
  BY WordAssumption DEF Init, EntriesInv, InFlight, Sub, Word
<1> QED BY <1>1, <1>2, <1>3, <1>4 DEF RingInv

(* While the producer owns its slot, head's entry and slot are not those   *)
(* of any message in flight.                                               *)
LEMMA HeadIsFree ==
  ASSUME TypeOK, CounterOrder, Sub(head, cached_tail) < limit,
         NEW p \in Word, NotSeenReleased(p) \/ InFlight(p)
  PROVE  /\ slot_index_for(p) # slot_index_for(head)
         /\ p % capacity # head % capacity
<1>1. head \in Word /\ tail \in Word /\ cached_tail \in Word
  BY DEF TypeOK
<1>2. p # head /\ Sub(head, p) < limit
  BY <1>1, Limits DEF CounterOrder, Ordered, NotSeenReleased, InFlight, Word, Sub
<1>3. Sub(head, p) \in Word
  BY <1>1, WordOps
<1>4. Sub(head, p) < slots /\ Sub(head, p) < capacity
  BY <1>2, <1>3, Limits DEF Word
<1>5. slot_index_for(p) # slot_index_for(head)
  <2>1. SUFFICES ASSUME p % slots = head % slots PROVE FALSE
    BY DEF slot_index_for
  <2>2. Sub(head, p) >= slots
    BY <1>1, <1>2, <2>1, SameIndexIsFar, SlotsDivideWord, Limits
  <2> QED BY <1>3, <1>4, <2>2, Limits DEF Word
<1>6. p % capacity # head % capacity
  <2>1. SUFFICES ASSUME p % capacity = head % capacity PROVE FALSE
    OBVIOUS
  <2>2. Sub(head, p) >= capacity
    BY <1>1, <1>2, <2>1, SameIndexIsFar, GeometryAssumption
  <2> QED BY <1>3, <1>4, <2>2, Limits DEF Word
<1> QED BY <1>5, <1>6

LEMMA RingNext == RingInv /\ [Next]_vars => RingInv'
<1> SUFFICES ASSUME RingInv, [Next]_vars PROVE RingInv'
  OBVIOUS
<1> USE DEF vars, storage, producer, consumer, pending, taken, marks
<1>0. /\ TypeOK /\ CounterOrder /\ ProducerInv /\ ConsumerInv /\ EntriesInv
      /\ TypeOK'
  BY TypeNext DEF RingInv
<1>t. /\ head \in Word /\ tail \in Word /\ cached_tail \in Word
      /\ cached_head \in Word
      /\ Ordered(cached_tail, tail, head) /\ Ordered(tail, cached_head, head)
      /\ Sub(head, cached_tail) <= limit /\ high_water <= limit
  BY <1>0 DEF TypeOK, CounterOrder
<1>1. ASSUME NEW wanted \in WantedLens, rb_acquire(wanted) PROVE RingInv'
  <2>1. PICK t \in (IF IsFull(Sub(head, cached_tail)) THEN Visible(tail, cached_tail)
                    ELSE {cached_tail}) :
          /\ cached_tail' = t
          /\ IF IsFull(Sub(head, t)) \/ (wanted > cap /\ drop_oversize)
             THEN UNCHANGED <<pending, ppc>>
             ELSE /\ pending_slot' = slot_index_for(head)
                  /\ pending_wanted' = wanted
                  /\ ppc' = "acquired"
    BY <1>1 DEF rb_acquire
  <2>2. t \in Word /\ Sub(t, cached_tail) <= Sub(tail, cached_tail)
    BY <1>t, VisibleIsBetween, Limits DEF Sub, Word
  <2>3. Ordered(t, tail, head) /\ Sub(head, t) <= Sub(head, cached_tail)
    BY <1>t, <2>2, LoadBehind
  <2>4. Sub(head, t) \in Word /\ Sub(head, cached_tail) \in Word
    BY <1>t, <2>2, WordOps
  <2>5. CounterOrder'
    BY <1>1, <1>t, <2>1, <2>3, <2>4, Limits DEF rb_acquire, CounterOrder, Ordered, Word, Sub
  <2>6. ProducerInv'
    BY <1>0, <1>1, <2>1, <2>4, Limits DEF rb_acquire, ProducerInv, ProducerOwns, IsFull, Word,
       slot_index_for
  <2>7. ConsumerInv' /\ EntriesInv'
    BY <1>0, <1>1, <2>1 DEF rb_acquire, ConsumerInv, EntriesInv, InFlight
  <2> QED BY <1>0, <2>5, <2>6, <2>7 DEF RingInv
<1>2. ASSUME NEW d \in Data, WritePayload(d) PROVE RingInv'
  BY <1>0, <1>2 DEF WritePayload, RingInv, CounterOrder, ProducerInv, ProducerOwns,
     ConsumerInv, EntriesInv, InFlight, slot_index_for
<1>3. CASE rb_abort
  BY <1>0, <1>3 DEF rb_abort, RingInv, CounterOrder, ProducerInv, ProducerOwns,
     ConsumerInv, EntriesInv, InFlight, slot_index_for
<1>4. ASSUME NEW written \in WrittenLens, NEW truncated \in BOOLEAN,
             PublishHeader(written, truncated)
      PROVE  RingInv'
  BY <1>0, <1>4 DEF PublishHeader, RingInv, CounterOrder, ProducerInv, ProducerOwns,
     ConsumerInv, EntriesInv, InFlight, slot_index_for
<1>5. CASE PublishEntry
  <2>1. pending_slot = slot_index_for(head) /\ Sub(head, cached_tail) < limit
    BY <1>0, <1>5 DEF PublishEntry, ProducerInv, ProducerOwns
  <2>2. CounterOrder' /\ ProducerInv' /\ ConsumerInv'
    BY <1>0, <1>5 DEF PublishEntry, CounterOrder, ProducerInv, ProducerOwns,
       ConsumerInv, slot_index_for
  <2>3. ASSUME ~ RB_PER_SLOT_LAP PROVE EntriesInv'
    <3>1. entries' = [entries EXCEPT ![head % capacity] = slot_index_for(head)]
          /\ head' = head /\ tail' = tail
      BY <1>5, <2>1, <2>3 DEF PublishEntry
    <3>2. head % capacity \in 0 .. capacity - 1
      BY <1>t, IndexType
    <3>3. entries'[head % capacity] = slot_index_for(head)
      BY <1>0, <3>1, <3>2 DEF TypeOK
    <3>4. ASSUME NEW p \in Word, InFlight(p)
          PROVE  entries'[p % capacity] = slot_index_for(p)
      <4>1. p % capacity # head % capacity
        BY <1>0, <2>1, <3>4, HeadIsFree
      <4>2. p % capacity \in 0 .. capacity - 1
        BY <3>4, IndexType
      <4>3. entries'[p % capacity] = entries[p % capacity]
        BY <1>0, <3>1, <4>1, <4>2 DEF TypeOK
      <4> QED BY <1>0, <2>3, <3>4, <4>3 DEF EntriesInv
    <3> QED BY <3>1, <3>3, <3>4 DEF EntriesInv, InFlight, slot_index_for
  <2> QED BY <1>0, <2>2, <2>3 DEF RingInv, EntriesInv
<1>6. CASE PublishHead
  <2>1. pending_slot = slot_index_for(head) /\ Sub(head, cached_tail) < limit
        /\ head' = Inc(head)
    BY <1>0, <1>6 DEF PublishHead, ProducerInv, ProducerOwns
  <2>2. Sub(head, cached_tail) < W - 1 /\ Sub(head, tail) < W - 1
    BY <1>t, <2>1, Limits DEF Ordered, Word, Sub
  <2>3. CounterOrder'
    BY <1>6, <1>t, <2>1, <2>2, AdvanceHead, Limits, WordOps
       DEF PublishHead, CounterOrder, Ordered, Sub, Inc, Word
  <2>4. ProducerInv' /\ ConsumerInv'
    BY <1>0, <1>6 DEF PublishHead, ProducerInv, ProducerOwns, ConsumerInv, slot_index_for
  <2>5. EntriesInv'
    <3>1. ASSUME ~ RB_PER_SLOT_LAP, NEW p \in Word, InFlight(p)'
          PROVE  entries[p % capacity] = slot_index_for(p)
      <4>1. Sub(p, tail) < Sub(Inc(head), tail)
        BY <1>6, <2>1, <3>1 DEF InFlight, PublishHead
      <4>2. InFlight(p) \/ p = head
        BY <1>t, <3>1, <4>1, Window DEF InFlight
      <4> QED BY <1>0, <1>6, <3>1, <4>2 DEF EntriesInv, PublishHead
    <3> QED BY <1>6, <3>1 DEF EntriesInv, PublishHead, slot_index_for
  <2> QED BY <1>0, <2>3, <2>4, <2>5 DEF RingInv
<1>7. CASE PublishCount
  <2>1. PICK t \in Visible(tail, cached_tail) :
          /\ cached_tail' = t
          /\ high_water' = IF Sub(head, t) > high_water THEN Sub(head, t) ELSE high_water
          /\ ppc' = IF IsFull(Sub(head, t)) THEN "full" ELSE "idle"
    BY <1>7 DEF PublishCount
  <2>2. t \in Word /\ Sub(t, cached_tail) <= Sub(tail, cached_tail)
    BY <1>t, VisibleIsBetween
  <2>3. Ordered(t, tail, head) /\ Sub(head, t) <= Sub(head, cached_tail)
    BY <1>t, <2>2, LoadBehind
  <2>4. Sub(head, t) \in Word /\ Sub(head, cached_tail) \in Word
    BY <1>t, <2>2, WordOps
  <2>5. Sub(head, t) <= limit /\ high_water' <= limit
    BY <1>t, <2>1, <2>3, <2>4, Limits DEF Word
  <2>6. head' = head /\ tail' = tail /\ cached_head' = cached_head
    BY <1>7 DEF PublishCount
  <2>7. CounterOrder'
    BY <1>t, <2>1, <2>3, <2>5, <2>6 DEF CounterOrder
  <2>8. ProducerInv' /\ ConsumerInv' /\ EntriesInv'
    BY <1>0, <1>7, <2>1 DEF PublishCount, ProducerInv, ProducerOwns, ConsumerInv,
       EntriesInv, InFlight, slot_index_for
  <2> QED BY <1>0, <2>7, <2>8 DEF RingInv
<1>8. CASE PublishLatch
  BY <1>0, <1>8 DEF PublishLatch, RingInv, CounterOrder, ProducerInv, ProducerOwns,
     ConsumerInv, EntriesInv, InFlight, slot_index_for
<1>9. CASE OnFull
  BY <1>0, <1>9 DEF OnFull, RingInv, CounterOrder, ProducerInv, ProducerOwns,
     ConsumerInv, EntriesInv, InFlight, slot_index_for
<1>10. CASE ConsumeHead
  <2>1. PICK h \in HeadSeen :
          cached_head' = h /\ cpc' = IF h = tail THEN "idle" ELSE "found"
    BY <1>10 DEF ConsumeHead
  <2>2. h \in Word /\ Sub(h, cached_head) <= Sub(head, cached_head)
    BY <1>t, VisibleIsBetween, Limits DEF HeadSeen, Sub, Word
  <2>3. Ordered(tail, h, head)
    BY <1>t, <2>2, LoadAhead
  <2>4. CounterOrder'
    BY <1>10, <1>t, <2>1, <2>3 DEF ConsumeHead, CounterOrder
  <2>5. ProducerInv' /\ ConsumerInv' /\ EntriesInv'
    BY <1>0, <1>10, <2>1 DEF ConsumeHead, ProducerInv, ProducerOwns, ConsumerInv,
       EntriesInv, InFlight, slot_index_for
  <2> QED BY <1>0, <2>4, <2>5 DEF RingInv
<1>11. CASE ConsumeSlot
  <2>1. PICK h \in (IF StampMissed THEN Visible(head, cached_head) ELSE {cached_head}) :
          /\ cached_head' = h
          /\ \/ cpc' = "idle" /\ UNCHANGED taken
             \/ /\ consumer_active' = TRUE /\ consumer_slot' = EntryAt(tail)
                /\ cpc' = "holding"
    BY <1>11 DEF ConsumeSlot
  <2>2. h \in Word /\ Sub(h, cached_head) <= Sub(head, cached_head)
    BY <1>t, VisibleIsBetween, Limits DEF Sub, Word
  <2>3. cached_head # tail
    BY <1>0, <1>11 DEF ConsumeSlot, ConsumerInv
  <2>4. Ordered(tail, h, head) /\ h # tail
    BY <1>t, <2>2, <2>3, LoadAhead
  <2>5. CounterOrder'
    BY <1>11, <1>t, <2>1, <2>4 DEF ConsumeSlot, CounterOrder
  <2>6. InFlight(tail)
    BY <1>t, <2>3, Limits DEF InFlight, Ordered, Sub, Word
  <2>7. EntryAt(tail) = slot_index_for(tail)
    BY <1>0, <1>t, <2>6 DEF EntryAt, EntriesInv
  <2>8. ConsumerInv'
    BY <1>0, <1>11, <2>1, <2>4, <2>7 DEF ConsumeSlot, ConsumerInv, slot_index_for
  <2>9. ProducerInv' /\ EntriesInv'
    BY <1>0, <1>11, <2>1 DEF ConsumeSlot, ProducerInv, ProducerOwns, EntriesInv,
       InFlight, slot_index_for
  <2> QED BY <1>0, <2>5, <2>8, <2>9 DEF RingInv
<1>12. CASE ReadPayload
  BY <1>0, <1>12 DEF ReadPayload, RingInv, CounterOrder, ProducerInv, ProducerOwns,
     ConsumerInv, EntriesInv, InFlight, slot_index_for
<1>13. CASE ReleaseStamp
  BY <1>0, <1>13 DEF ReleaseStamp, RingInv, CounterOrder, ProducerInv, ProducerOwns,
     ConsumerInv, EntriesInv, InFlight, slot_index_for
<1>14. CASE ReleaseTail
  <2>1. cached_head # tail /\ tail' = Inc(tail)
    BY <1>0, <1>14 DEF ReleaseTail, ConsumerInv
  <2>2. head # tail
    BY <1>t, <2>1, Limits DEF Ordered, Sub, Word
  <2>3. CounterOrder'
    BY <1>14, <1>t, <2>1, AdvanceTail DEF ReleaseTail, CounterOrder
  <2>4. ProducerInv' /\ ConsumerInv'
    BY <1>0, <1>14 DEF ReleaseTail, ProducerInv, ProducerOwns, ConsumerInv, slot_index_for
  <2>5. EntriesInv'
    <3>1. ASSUME NEW p \in Word, InFlight(p)' PROVE InFlight(p)
      BY <1>14, <1>t, <2>1, <2>2, <3>1, Window DEF InFlight, ReleaseTail
    <3> QED BY <1>0, <1>14, <3>1 DEF EntriesInv, ReleaseTail, slot_index_for
  <2> QED BY <1>0, <2>3, <2>4, <2>5 DEF RingInv
<1>15. CASE ReleaseLowD
  BY <1>0, <1>15 DEF ReleaseLowD, RingInv, CounterOrder, ProducerInv, ProducerOwns,
     ConsumerInv, EntriesInv, InFlight, slot_index_for
<1>16. CASE OnLowD
  BY <1>0, <1>16 DEF OnLowD, RingInv, CounterOrder, ProducerInv, ProducerOwns,
     ConsumerInv, EntriesInv, InFlight, slot_index_for
<1>17. CASE ReleaseLowE
  BY <1>0, <1>17 DEF ReleaseLowE, RingInv, CounterOrder, ProducerInv, ProducerOwns,
     ConsumerInv, EntriesInv, InFlight, slot_index_for
<1>18. CASE UNCHANGED vars
  BY <1>0, <1>18 DEF RingInv, CounterOrder, ProducerInv, ProducerOwns, ConsumerInv,
     EntriesInv, InFlight, slot_index_for
<1> QED
  BY <1>1, <1>2, <1>3, <1>4, <1>5, <1>6, <1>7, <1>8, <1>9, <1>10, <1>11, <1>12,
     <1>13, <1>14, <1>15, <1>16, <1>17, <1>18 DEF Next, Producer, Consumer

(* The ring keeps RingInv: counters in order, owned slots where the        *)
(* counters say, entries intact, across any number of wraps.               *)
THEOREM RingCorrect == Spec => []RingInv
BY RingInit, RingNext, PTL DEF Spec

(* RingInv rules out a data race on a slot. *)
LEMMA RingIsRaceFree == RingInv => SlotRaceFree
<1> SUFFICES ASSUME RingInv PROVE SlotRaceFree
  OBVIOUS
<1>1. TypeOK /\ CounterOrder /\ ProducerInv /\ ConsumerInv
  BY DEF RingInv
<1>2. consumer_active => cached_head # tail
  BY <1>1 DEF ConsumerInv
<1>3. ASSUME ProducerOwns, NEW p \in Word, NotSeenReleased(p)
      PROVE  slot_index_for(p) # pending_slot
  BY <1>1, <1>3, HeadIsFree DEF ProducerInv
<1>4. ASSUME ProducerOwns, consumer_active PROVE consumer_slot # pending_slot
  <2>1. tail \in Word /\ InFlight(tail)
    BY <1>1, <1>2, <1>4, Limits DEF TypeOK, CounterOrder, InFlight, Ordered, Sub, Word
  <2>2. slot_index_for(tail) # slot_index_for(head)
    BY <1>1, <1>4, <2>1, HeadIsFree DEF ProducerInv
  <2> QED BY <1>1, <1>4, <2>2 DEF ProducerInv, ConsumerInv
<1> QED BY <1>2, <1>3, <1>4 DEF SlotRaceFree

(* No interleaving of rb_acquire, rb_publish, rb_consume and rb_release    *)
(* lets the two threads touch the same slot without a release and an       *)
(* acquire between them.                                                   *)
THEOREM RaceFreedom == Spec => []SlotRaceFree
BY RingCorrect, RingIsRaceFree, PTL

(* The counters, cached and shared, keep their order and the limit. *)
THEOREM CountersOrdered == Spec => []CounterOrder
<1>1. RingInv => CounterOrder
  BY DEF RingInv
<1> QED BY <1>1, RingCorrect, PTL

=============================================================================
