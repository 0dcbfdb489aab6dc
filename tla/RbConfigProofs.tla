--------------------------- MODULE RbConfigProofs ---------------------------
(***************************************************************************)
(* Proofs, for every word size, every compile-time default and every set   *)
(* of arguments, about the geometry rb_init accepts and the runtime        *)
(* setters keep.                                                           *)
(***************************************************************************)
EXTENDS RbConfig, WordProofs

Configs == [capacity : Nat, slots : Word, slot_size : Word, limit : Nat,
            low_d : Nat, low_e : Nat]

Blocks == [capacity : Nat, slots : Word, slot_size : Word, limit : Nat, stride : Word,
           low_d : Nat, low_e : Nat, scratch_size : Nat]

ConfigTypeOK ==
    /\ cfg \in Configs /\ rb \in Blocks
    /\ count \in Nat /\ pending \in {TRUE, FALSE} /\ new_limit \in Nat

(* A limit that has passed rb_set_limit's tests fits the ring it is stored *)
(* in, for rb_deinit waits for the store.                                  *)
NewLimitFits ==
    new_limit # 0 => Ready /\ new_limit <= rb.capacity /\ new_limit <= rb.slots

ConfigInv == ConfigTypeOK /\ GeometryHolds /\ CountFits /\ NewLimitFits

-----------------------------------------------------------------------------
LEMMA Constants ==
  /\ W \in Nat /\ W > 1 /\ SizeT \in Nat /\ SizeT >= W /\ Align \in Nat \ {0}
  /\ RB_CAPACITY \in Word \ {0} /\ RB_NUM_SLOTS \in Word \ {0} /\ RB_SLOT_SIZE \in Word \ {0}
  /\ Capacities \subseteq Nat /\ SlotCounts \subseteq Word /\ SlotSizes \subseteq Word
  /\ Limits \subseteq Nat /\ Percents \subseteq Nat /\ ScratchSizes \subseteq Nat
BY WordAssumption, ConfigAssumption DEF Word

(* The stride is a 32-bit value. *)
LEMMA StrideType ==
  ASSUME NEW n \in Nat
  PROVE  slot_stride_for(n) \in Word
<1> DEFINE x == (n + Align - 1) % SizeT
           y == x \div Align
<1>0. W \in Nat \ {0} /\ SizeT \in Nat \ {0} /\ Align \in Nat \ {0} /\ n + Align - 1 \in Nat
  BY Constants
<1>1. x \in Nat
  BY <1>0, DivMod
<1>2. y \in Nat
  BY <1>0, <1>1, DivMod
<1> HIDE DEF y
<1>3. y * Align \in Nat
  BY <1>0, <1>2
<1>4. (y * Align) % W \in 0 .. W - 1
  BY <1>0, <1>3, DivMod
<1> QED BY <1>4 DEF slot_stride_for, Word, y

(* What rb_init computes before it checks. *)
LEMMA BlockFacts ==
  ASSUME NEW c \in Configs, NEW s \in Nat
  PROVE  LET b == ControlBlock(c, s)
         IN  /\ b \in Blocks
             /\ b.slots >= 1 /\ b.limit >= 1 /\ b.limit <= b.slots
             /\ b.capacity >= 1 => b.limit <= b.capacity
             /\ b.scratch_size = s
             /\ b.stride = slot_stride_for(b.slot_size)
             /\ b.slot_size = Default(c.slot_size, RB_SLOT_SIZE)
<1> DEFINE capacity == Default(c.capacity, RB_CAPACITY)
           slots == Default(c.slots, RB_NUM_SLOTS)
           slot_size == Default(c.slot_size, RB_SLOT_SIZE)
           asked == Default(c.limit, capacity)
<1>1. /\ capacity \in Nat \ {0} /\ slots \in Word \ {0} /\ slot_size \in Word
      /\ asked \in Nat \ {0}
  BY Constants DEF Configs, Default, Word
<1>2. slot_stride_for(slot_size) \in Word
  BY <1>1, StrideType DEF Word
<1> HIDE DEF capacity, slots, slot_size, asked
<1>3. LET l == Clamped(asked, capacity, slots)
      IN  l \in Nat \ {0} /\ l <= slots /\ l <= capacity
  BY <1>1 DEF Clamped, Word
<1>4. ControlBlock(c, s) =
        [capacity |-> capacity, slots |-> slots, slot_size |-> slot_size,
         limit |-> Clamped(asked, capacity, slots),
         stride |-> slot_stride_for(slot_size),
         low_d |-> c.low_d, low_e |-> c.low_e, scratch_size |-> s]
  BY DEF ControlBlock, capacity, slots, slot_size, asked
<1>5. c.low_d \in Nat /\ c.low_e \in Nat
  BY DEF Configs
<1>6. ControlBlock(c, s) \in Blocks
  BY <1>1, <1>2, <1>3, <1>4, <1>5 DEF Blocks
<1> QED BY <1>1, <1>3, <1>4, <1>6 DEF slot_size, Word

-----------------------------------------------------------------------------
LEMMA ConfigInit == Init => ConfigInv
<1> SUFFICES ASSUME Init PROVE ConfigInv
  OBVIOUS
<1>1. cfg \in Configs
  BY Constants DEF Init, rb_config_defaults, Configs, Word
<1>2. rb \in Blocks /\ rb.scratch_size = 0
  BY <1>1, BlockFacts DEF Init
<1>3. ConfigTypeOK
  BY <1>1, <1>2 DEF Init, ConfigTypeOK
<1>4. ~ Ready /\ new_limit = 0
  BY <1>2 DEF Init, Ready
<1> QED BY <1>3, <1>4 DEF ConfigInv, GeometryHolds, CountFits, NewLimitFits

(* Filling in a configuration leaves the ring alone. *)
LEMMA ConfigureKeeps ==
  ASSUME ConfigInv, Configure
  PROVE  ConfigInv'
<1>1. UNCHANGED <<rb, count, pending, new_limit>>
  BY DEF Configure, rb_config_set
<1>2. cfg' \in Configs
  BY Constants DEF Configure, rb_config_set, Configs, ConfigInv, ConfigTypeOK
<1> QED BY <1>1, <1>2 DEF ConfigInv, ConfigTypeOK, GeometryHolds, CountFits,
                          NewLimitFits, Ready

LEMMA InitKeeps ==
  ASSUME ConfigInv, NEW s \in ScratchSizes, rb_init(s)
  PROVE  ConfigInv'
<1> DEFINE b == ControlBlock(cfg, s)
<1>1. s \in Nat /\ cfg \in Configs
  BY Constants DEF ConfigInv, ConfigTypeOK
<1>2. rb' = b /\ Accepts(b) /\ count' = 0 /\ pending' = FALSE /\ cfg' = cfg
      /\ new_limit' = new_limit /\ ~ Ready
  BY DEF rb_init
<1>3. /\ b \in Blocks /\ b.slots >= 1 /\ b.limit >= 1 /\ b.limit <= b.slots
      /\ b.capacity >= 1 => b.limit <= b.capacity
  BY <1>1, BlockFacts
<1> HIDE DEF b
<1>4. /\ IsPow2(b.capacity) /\ b.capacity >= 2
      /\ b.low_d <= 100 /\ b.low_e <= 100
  BY <1>2 DEF Accepts
<1>5. b.capacity \in Nat /\ b.slots \in Nat
  BY <1>3 DEF Blocks, Word
<1>6. GeometryHolds'
  BY <1>2, <1>3, <1>4, <1>5 DEF GeometryHolds
<1>7. CountFits'
  BY <1>2, <1>3, <1>4, <1>5 DEF CountFits
<1>8. new_limit = 0 /\ ConfigTypeOK'
  BY <1>1, <1>2, <1>3 DEF ConfigInv, ConfigTypeOK, NewLimitFits
<1> QED BY <1>2, <1>6, <1>7, <1>8 DEF ConfigInv, NewLimitFits

LEMMA DeinitKeeps ==
  ASSUME ConfigInv, rb_deinit
  PROVE  ConfigInv'
<1>1. ConfigTypeOK'
  BY DEF ConfigInv, ConfigTypeOK, rb_deinit, Blocks
<1>2. rb'.scratch_size = 0 /\ new_limit' = 0
  BY DEF ConfigInv, ConfigTypeOK, rb_deinit, Blocks
<1> QED BY <1>1, <1>2 DEF ConfigInv, GeometryHolds, CountFits, NewLimitFits, Ready

(* The runtime setters keep the geometry: rb_set_limit stores only what it *)
(* has tested, and nothing it was tested against moves in between.         *)
LEMMA ReconfigureKeeps ==
  ASSUME ConfigInv, Reconfigure
  PROVE  ConfigInv'
<1>0. rb \in Blocks /\ new_limit \in Nat
  BY DEF ConfigInv, ConfigTypeOK
<1>1. ASSUME NEW v \in Limits, SetLimitTest(v) PROVE ConfigInv'
  <2>1. v \in Nat
    BY Constants
  <2>2. UNCHANGED <<cfg, rb, count, pending>> /\ new_limit' = v
    BY <1>1 DEF SetLimitTest
  <2>3. NewLimitFits'
    BY <1>1, <2>2 DEF SetLimitTest, NewLimitFits, Ready
  <2> QED BY <2>1, <2>2, <2>3 DEF ConfigInv, ConfigTypeOK, GeometryHolds, CountFits, Ready
<1>2. CASE SetLimitStore
  <2>1. /\ rb' \in Blocks /\ rb'.limit = new_limit
        /\ rb'.capacity = rb.capacity /\ rb'.slots = rb.slots
        /\ rb'.scratch_size = rb.scratch_size
        /\ rb'.low_d = rb.low_d /\ rb'.low_e = rb.low_e
    BY <1>0, <1>2 DEF SetLimitStore, Blocks
  <2>2. /\ UNCHANGED <<cfg, count, pending>> /\ new_limit' = 0
        /\ new_limit >= 1 /\ new_limit <= rb.capacity /\ new_limit <= rb.slots
    BY <1>0, <1>2 DEF SetLimitStore, ConfigInv, NewLimitFits
  <2>3. GeometryHolds'
    BY <2>1, <2>2 DEF ConfigInv, GeometryHolds, Ready
  <2>4. CountFits'
    BY <2>1, <2>2 DEF ConfigInv, CountFits, Ready
  <2> QED BY <2>1, <2>2, <2>3, <2>4 DEF ConfigInv, ConfigTypeOK, NewLimitFits
<1>3. ASSUME NEW v \in Percents, NEW f \in {"low_d", "low_e"}, rb_set_low(f, v)
      PROVE  ConfigInv'
  <2>1. v \in Nat /\ v <= 100 /\ UNCHANGED <<cfg, count, pending, new_limit>>
    BY <1>3, Constants DEF rb_set_low
  <2>2. /\ rb' \in Blocks /\ rb'.limit = rb.limit
        /\ rb'.capacity = rb.capacity /\ rb'.slots = rb.slots
        /\ rb'.scratch_size = rb.scratch_size
        /\ rb'.low_d \in {rb.low_d, v} /\ rb'.low_e \in {rb.low_e, v}
    <3>1. CASE f = "low_d"
      BY <1>0, <1>3, <2>1, <3>1 DEF rb_set_low, Blocks
    <3>2. CASE f = "low_e"
      BY <1>0, <1>3, <2>1, <3>2 DEF rb_set_low, Blocks
    <3> QED BY <1>3, <3>1, <3>2
  <2>3. GeometryHolds'
    BY <2>1, <2>2 DEF ConfigInv, GeometryHolds, Ready
  <2>4. CountFits' /\ NewLimitFits'
    BY <2>1, <2>2 DEF ConfigInv, CountFits, NewLimitFits, Ready
  <2> QED BY <2>1, <2>2, <2>3, <2>4 DEF ConfigInv, ConfigTypeOK
<1> QED BY <1>1, <1>2, <1>3 DEF Reconfigure

(* The producer acquires below the limit in force, which is at most the    *)
(* slots and the entries, whatever rb_set_limit stores later.              *)
LEMMA MessagesKeep ==
  ASSUME ConfigInv, rb_acquire \/ rb_publish \/ rb_release
  PROVE  ConfigInv'
<1> DEFINE h == IF pending THEN 1 ELSE 0
           hn == IF pending' THEN 1 ELSE 0
<1>0. rb.slots \in Nat /\ rb.capacity \in Nat /\ rb.limit \in Nat /\ count \in Nat
  BY DEF ConfigInv, ConfigTypeOK, Blocks, Word
<1>1. UNCHANGED <<cfg, rb, new_limit>> /\ Ready
  BY DEF rb_acquire, rb_publish, rb_release
<1>2. /\ rb.limit <= rb.slots /\ rb.limit <= rb.capacity
      /\ count + h <= rb.slots /\ count + h <= rb.capacity
  BY <1>1 DEF ConfigInv, GeometryHolds, CountFits
<1>3. h \in {0, 1} /\ pending' \in {TRUE, FALSE}
  BY Zenon DEF ConfigInv, ConfigTypeOK, rb_acquire, rb_publish, rb_release
<1>4. \/ hn = 1 /\ count' = count /\ count < rb.limit
      \/ h = 1 /\ hn = 0 /\ count' = count + 1
      \/ hn = h /\ count' = count - 1 /\ count > 0
  <2>1. rb_acquire => hn = 1 /\ count' = count /\ count < rb.limit
    BY Zenon DEF rb_acquire
  <2>2. rb_publish => h = 1 /\ hn = 0 /\ count' = count + 1
    BY Zenon DEF rb_publish
  <2>3. rb_release => hn = h /\ count' = count - 1 /\ count > 0
    <3>1. rb_release => pending' = pending /\ count' = count - 1 /\ count > 0
      BY DEF rb_release
    <3>2. ASSUME pending' = pending PROVE hn = h
      <4>1. CASE pending
        BY <3>2, <4>1, Zenon
      <4>2. CASE ~ pending
        BY <3>2, <4>2, Zenon
      <4> QED BY <4>1, <4>2
    <3> QED BY <3>1, <3>2
  <2> QED BY <2>1, <2>2, <2>3
<1>5. count' \in Nat /\ count' + hn <= rb.slots /\ count' + hn <= rb.capacity
  <2> HIDE DEF h, hn
  <2> QED BY <1>0, <1>2, <1>3, <1>4
<1>6. CountFits'
  BY <1>1, <1>5 DEF CountFits
<1> QED BY <1>1, <1>3, <1>5, <1>6
        DEF ConfigInv, ConfigTypeOK, GeometryHolds, NewLimitFits, Ready

LEMMA ConfigNext == ConfigInv /\ [Next]_vars => ConfigInv'
<1> SUFFICES ASSUME ConfigInv, [Next]_vars PROVE ConfigInv'
  OBVIOUS
<1>1. CASE UNCHANGED vars
  BY <1>1 DEF vars, ConfigInv, ConfigTypeOK, GeometryHolds, CountFits, NewLimitFits, Ready
<1>2. CASE Next
  BY <1>2, ConfigureKeeps, InitKeeps, DeinitKeeps, ReconfigureKeeps, MessagesKeep DEF Next
<1> QED BY <1>1, <1>2

(* rb_init with any configuration, then any sequence of runtime setters:   *)
(* the ring in use has a power of two of entries, and a limit of at least  *)
(* one that neither the slots nor the entries are fewer than.              *)
THEOREM ConfigGeometry == Spec => []GeometryHolds
<1>1. ConfigInv => GeometryHolds
  BY DEF ConfigInv
<1> QED BY <1>1, ConfigInit, ConfigNext, PTL DEF Spec

(* rb_set_limit racing with rb_acquire: although the limit can end below   *)
(* the count, the messages always fit the slots and the entries.           *)
THEOREM ConfigCount == Spec => []CountFits
<1>1. ConfigInv => CountFits
  BY DEF ConfigInv
<1> QED BY <1>1, ConfigInit, ConfigNext, PTL DEF Spec

-----------------------------------------------------------------------------
(* When rb_init's size test is enough.  It is made in size_t, after the    *)
(* stride was cut to 32 bits: both can wrap, so the slots lie inside the   *)
(* scratchpad if a size_t is twice as wide as a position and no slot size  *)
(* is so close to 2^32 that padding it wraps.                              *)

WideSizes ==
    /\ SizeT >= W * W
    /\ \A n \in SlotSizes \cup {RB_SLOT_SIZE} : n + Align <= W

(* The slot sizes a caller has set. *)
SizesSet == cfg.slot_size \in SlotSizes \cup {RB_SLOT_SIZE}

(* The largest multiple of a number that is not above another. *)
LEMMA Multiple ==
  ASSUME NEW x \in Nat, NEW a \in Nat \ {0}
  PROVE  LET m == (x \div a) * a IN m \in Nat /\ m <= x /\ m > x - a
<1> DEFINE y == x \div a
           r == x % a
<1>1. y \in Nat /\ r \in 0 .. a - 1 /\ x = a * y + r
  BY DivMod
<1> HIDE DEF y, r
<1>2. a * y = y * a /\ y * a \in Nat
  BY <1>1
<1>3. y * a <= x /\ y * a > x - a
  BY <1>1, <1>2
<1> QED BY <1>2, <1>3 DEF y

(* Padding to the alignment does not shrink a slot. *)
LEMMA StrideCovers ==
  ASSUME NEW n \in Nat, n + Align <= W
  PROVE  slot_stride_for(n) >= n
<1> DEFINE x == n + Align - 1
           m == (x \div Align) * Align
<1>0. W \in Nat \ {0} /\ SizeT \in Nat /\ SizeT >= W /\ Align \in Nat \ {0} /\ x \in Nat /\ x < W
  BY Constants
<1>1. x % SizeT = x
  BY <1>0
<1>2. m \in Nat /\ m <= x /\ m > x - Align
  BY <1>0, Multiple
<1> HIDE DEF m
<1>3. m >= n /\ m % W = m
  BY <1>0, <1>2
<1>4. slot_stride_for(n) = m % W
  BY <1>1 DEF slot_stride_for, m
<1> QED BY <1>3, <1>4

(* The product of two 32-bit values. *)
LEMMA Product ==
  ASSUME NEW a \in Word, NEW b \in Word
  PROVE  a * b \in Nat /\ a * b < W * W
<1>0. W \in Nat /\ W > 1 /\ a \in Nat /\ b \in Nat /\ a < W /\ b < W
  BY WordAssumption DEF Word
<1>1. a * b <= a * W
  BY <1>0
<1>2. a * W < W * W
  BY <1>0
<1> QED BY <1>0, <1>1, <1>2

LEMMA SlotsFitNext ==
  ASSUME WideSizes, ConfigInv, SizesSet, SlotsFit, [Next]_vars
  PROVE  SizesSet' /\ SlotsFit'
<1>0. cfg \in Configs /\ rb \in Blocks
  BY DEF ConfigInv, ConfigTypeOK
<1>1. CASE UNCHANGED <<cfg, rb>>
  BY <1>1 DEF SizesSet, SlotsFit, Ready
<1>2. CASE Configure
  <2>1. rb' = rb
    BY <1>2 DEF Configure, rb_config_set
  <2>2. cfg'.slot_size \in SlotSizes \cup {cfg.slot_size}
    BY <1>0, <1>2 DEF Configure, rb_config_set, Configs
  <2> QED BY <2>1, <2>2 DEF SizesSet, SlotsFit, Ready
<1>3. ASSUME NEW s \in ScratchSizes, rb_init(s) PROVE SizesSet' /\ SlotsFit'
  <2> DEFINE b == ControlBlock(cfg, s)
  <2>1. s \in Nat
    BY Constants
  <2>2. /\ b \in Blocks /\ b.scratch_size = s /\ b.stride = slot_stride_for(b.slot_size)
        /\ b.slot_size = Default(cfg.slot_size, RB_SLOT_SIZE)
    BY <1>0, <2>1, BlockFacts
  <2>3. rb' = b /\ cfg' = cfg /\ b.scratch_size >= Needed(b)
    BY <1>3 DEF rb_init, Accepts
  <2> HIDE DEF b
  <2>4. b.slot_size \in Nat /\ b.slot_size + Align <= W
    BY <2>2 DEF WideSizes, SizesSet, Default, Blocks, Word
  <2>5. b.stride >= b.slot_size
    BY <2>2, <2>4, StrideCovers
  <2>6. b.slots \in Word /\ b.stride \in Word
    BY <2>2 DEF Blocks
  <2>7. b.slots * b.stride \in Nat /\ b.slots * b.stride < W * W
    BY <2>6, Product
  <2>8. Needed(b) = b.slots * b.stride
    <3> DEFINE p == b.slots * b.stride
               q == W * W
    <3>1. q \in Nat /\ SizeT \in Nat /\ SizeT >= q
      BY Constants DEF WideSizes
    <3>2. p \in Nat /\ p < q
      BY <2>7
    <3>3. Needed(b) = p % SizeT
      BY DEF Needed
    <3> HIDE DEF p, q
    <3>4. p % SizeT = p
      BY <3>1, <3>2
    <3> QED BY <3>3, <3>4 DEF p
  <2> QED BY <2>3, <2>5, <2>8 DEF SizesSet, SlotsFit
<1>4. CASE rb_deinit
  <2>1. cfg' = cfg /\ rb'.scratch_size = 0
    BY <1>0, <1>4 DEF rb_deinit, Blocks
  <2> QED BY <2>1 DEF SizesSet, SlotsFit, Ready
<1>5. ASSUME NEW f \in {"limit", "low_d", "low_e"}, NEW v,
             rb' = [rb EXCEPT ![f] = v], cfg' = cfg
      PROVE  SizesSet' /\ SlotsFit'
  <2>1. /\ rb'.slots = rb.slots /\ rb'.stride = rb.stride
        /\ rb'.slot_size = rb.slot_size /\ rb'.scratch_size = rb.scratch_size
    BY <1>0, <1>5 DEF Blocks
  <2> QED BY <1>5, <2>1 DEF SizesSet, SlotsFit, Ready
<1>6. CASE Reconfigure
  BY <1>1, <1>5, <1>6 DEF Reconfigure, SetLimitTest, SetLimitStore, rb_set_low
<1> QED BY <1>1, <1>2, <1>3, <1>4, <1>6
        DEF Next, vars, rb_acquire, rb_publish, rb_release

(* rb_init, "scratchpad must be at least slots * stride bytes": with a     *)
(* size_t twice as wide as uint32_t and slot sizes whose padding does not  *)
(* wrap, the slots of every ring rb_init accepts lie in its scratchpad.    *)
THEOREM ConfigSlotsFit == ASSUME WideSizes PROVE Spec => []SlotsFit
<1> DEFINE Inv == ConfigInv /\ SizesSet /\ SlotsFit
<1>1. Init => Inv
  <2> SUFFICES ASSUME Init PROVE Inv
    OBVIOUS
  <2>1. SizesSet
    BY DEF Init, rb_config_defaults, SizesSet
  <2>2. ConfigInv
    BY ConfigInit
  <2>3. ~ Ready
    BY <2>2, BlockFacts DEF Init, Ready, ConfigInv, ConfigTypeOK
  <2> QED BY <2>1, <2>2, <2>3 DEF SlotsFit
<1>2. Inv /\ [Next]_vars => Inv'
  BY ConfigNext, SlotsFitNext
<1> HIDE DEF Inv
<1>3. Inv => SlotsFit
  BY DEF Inv
<1> QED BY <1>1, <1>2, <1>3, PTL DEF Spec

=============================================================================
